---- MODULE Spec2Model ----
(***************************************************************************)
(* Model of the intelligent-email-routing repository:                      *)
(*   src/mcp_lambda.py  the Configuration Protocol Handler (JSON-RPC over  *)
(*                      HTTP, API-key authentication, routing rules CRUD)  *)
(*   src/lambda.py      the forwarding path (Routing Configuration Reader) *)
(* Both share one DynamoDB table, modelled by the variable `table`.        *)
(*                                                                         *)
(* Conventions.  A Python dict is a TLA+ record/function whose DOMAIN is   *)
(* the set of keys present.  A DynamoDB attribute value is a record with   *)
(* one field named after its type ([S |-> "x"], [BOOL |-> TRUE],           *)
(* [SS |-> {...}]).  A JSON value is a record with one field named after   *)
(* its kind ([str |-> ..], [num |-> ..], [null |-> TRUE], [arr |-> ..],    *)
(* [obj |-> dict]).  A string that the code cuts or joins (the             *)
(* Authorization header, a sort key) is a sequence of tokens.  A call that *)
(* raises is an outcome [exc |-> <exception type>].                        *)
(***************************************************************************)
EXTENDS Integers, Sequences, FiniteSets, TLC

VARIABLES
    table,        \* the DynamoDB table: <<pk, sk>> -> item
    now,          \* the wall clock read by datetime.now(timezone.utc)
    event,        \* the event of the last protocol-handler invocation
    resp,         \* what that invocation returned, or the exception it raised
    stages,       \* the handler stages that invocation went through, in order
    ops,          \* the store calls that invocation made, in order, with outcome
    overwritten,  \* history variable: rules values that were current and got replaced
    archiveFailed,\* history variable: some archive-path store call has failed
    routingTable, \* lambda.py's ROUTING_TABLE environment setting
    readerOut,    \* what lambda.py's get_routing_prompt returned last
    inbound,      \* the parsed inbound message of the forwarding invocation
    extracted,    \* what extract_email_content returned for it
    fwd,          \* the forwarding invocation: its settings, calls, sends and outcome
    writers       \* the concurrent update_routing_prompt calls: position and locals

vars == <<table, now, event, resp, stages, ops, overwritten, archiveFailed,
          routingTable, readerOut, inbound, extracted, fwd, writers>>

(***************************************************************************)
(* Bounds                                                                  *)
(***************************************************************************)
\* The clock takes the values 0..MaxTime.
MaxTime == 2

\* A multipart message has at most MaxParts parts.
MaxParts == 3

\* The send that fails is one of the first MaxSends sends of an invocation.
MaxSends == 2

Times == 0..MaxTime

(***************************************************************************)
(* Python / JSON / DynamoDB helpers                                        *)
(***************************************************************************)
EmptyDict == <<>>

\* dict.get(k, def)
Get(d, k, def) == IF k \in DOMAIN d THEN d[k] ELSE def

\* item.get(name, {}).get(type, def) on a DynamoDB item
Attr(item, name, type, def) ==
    IF name \in DOMAIN item /\ type \in DOMAIN item[name]
    THEN item[name][type] ELSE def

JStr(s) == [str |-> s]
JNum(n) == [num |-> n]
JNull == [null |-> TRUE]
JObj(d) == [obj |-> d]
JArr(s) == [arr |-> s]

\* datetime.isoformat(): the timestamp as text
IsoFormat(t) == ToString(t)

\* datetime.fromisoformat(s) succeeds only on the text of a timestamp
IsIsoFormat(s) == \E t \in Times : IsoFormat(t) = s
FromIsoFormat(s) == CHOOSE t \in Times : IsoFormat(t) = s

\* hashlib.sha256(api_key.encode()).hexdigest(): collision-free on the keys used
Sha256(s) == "sha256(" \o s \o ")"

RECURSIVE Join(_)
Join(toks) == IF toks = <<>> THEN "" ELSE Head(toks) \o Join(Tail(toks))

\* auth_header.replace("Bearer ", "")
RemoveBearer(toks) == SelectSeq(toks, LAMBDA x : x # "Bearer ")

\* str.strip(): drop the whitespace tokens at both ends
RECURSIVE LStrip(_)
LStrip(toks) ==
    IF toks # <<>> /\ Head(toks) = " " THEN LStrip(Tail(toks)) ELSE toks

RECURSIVE RStrip(_)
RStrip(toks) ==
    IF toks # <<>> /\ toks[Len(toks)] = " "
    THEN RStrip(SubSeq(toks, 1, Len(toks) - 1)) ELSE toks

Strip(toks) == RStrip(LStrip(toks))

(***************************************************************************)
(* The table: keys and store calls.  A store call either succeeds or       *)
(* fails with botocore's ClientError; `flt` says which calls of an         *)
(* invocation fail.                                                        *)
(***************************************************************************)
ApiKeyKey(key_hash) == <<"API_KEY", <<key_hash>>>>
ConfigKey == <<"CONFIG", <<"routing_prompt">>>>
\* f"routing_prompt#{timestamp}"
HistoryKey(timestamp) == <<"HISTORY", <<"routing_prompt#", timestamp>>>>

PutItem(tbl, k, item) ==
    [y \in DOMAIN tbl \cup {k} |-> IF y = k THEN item ELSE tbl[y]]

\* update_item ... SET name = value (creates the item when there is none)
UpdateItem(tbl, k, name, value) ==
    LET old == IF k \in DOMAIN tbl THEN tbl[k] ELSE EmptyDict
    IN  PutItem(tbl, k,
                [a \in DOMAIN old \cup {name} |-> IF a = name THEN value ELSE old[a]])

FaultNames ==
    {"get_key", "update_key", "get_config", "put_history", "put_config", "query"}

\* the fault records in which only the calls in S may fail
FaultsOver(S) ==
    {f \in [FaultNames -> BOOLEAN] : \A n \in FaultNames \ S : ~f[n]}

NoFault == [n \in FaultNames |-> FALSE]

\* the faults tried on the protocol checks: at most one call fails
ProtocolFaults ==
    {f \in FaultsOver({"get_key", "update_key", "get_config", "query"}) :
        Cardinality({n \in FaultNames : f[n]}) <= 1}

\* the faults tried on reads and writes of the rules: any of the three calls of a write
ConfigFaults == FaultsOver({"get_config", "put_history", "put_config"})

Op(name, pk, failed) == [op |-> name, pk |-> pk, ok |-> ~failed]

\* the HISTORY items: pk = HISTORY and begins_with(sk, "routing_prompt#")
HistoryKeys(tbl) ==
    {k \in DOMAIN tbl : k[1] = "HISTORY" /\ Len(k[2]) >= 1 /\ k[2][1] = "routing_prompt#"}

(***************************************************************************)
(* mcp_lambda.validate_api_key                                             *)
(* Result: kind = "None" (rejected), "info" (accepted) or "raise".         *)
(***************************************************************************)
KeyResult(kind, info, exc, tbl, log) ==
    [kind |-> kind, info |-> info, exc |-> exc, table |-> tbl, ops |-> log]

NoInfo == [key_name |-> "", permissions |-> {}]

\* The expiry test of validate_api_key (lines 59-64): "ok", "expired", or the
\* exception that item["expires_at"]["S"] / fromisoformat raises.
ExpiryCheck(item, t) ==
    IF "expires_at" \notin DOMAIN item THEN "ok"
    ELSE IF "S" \notin DOMAIN item["expires_at"] THEN "KeyError"
    ELSE IF ~IsIsoFormat(item["expires_at"]["S"]) THEN "ValueError"
    ELSE IF t > FromIsoFormat(item["expires_at"]["S"]) THEN "expired"
    ELSE "ok"

\* The last_used_at refresh (lines 67-78): a ClientError is swallowed.
RefreshLastUsed(tbl, k, t, flt) ==
    IF flt["update_key"] THEN tbl
    ELSE UpdateItem(tbl, k, "last_used_at", [S |-> IsoFormat(t)])

\* AcceptKey without the try/except around the refresh: its failure rejects the key
AcceptKeyRefreshFatal(item, tbl, k, t, flt) ==
    IF flt["update_key"]
    THEN KeyResult("None", NoInfo, "", tbl,
                   <<Op("get_item", "API_KEY", FALSE), Op("update_item", "API_KEY", TRUE)>>)
    ELSE KeyResult("info",
                   [key_name |-> Attr(item, "key_name", "S", "unknown"),
                    permissions |-> Attr(item, "permissions", "SS", {})],
                   "",
                   UpdateItem(tbl, k, "last_used_at", [S |-> IsoFormat(t)]),
                   <<Op("get_item", "API_KEY", FALSE), Op("update_item", "API_KEY", FALSE)>>)

\* What validate_api_key does once the record passed every test (lines 66-84).
AcceptKey(item, tbl, k, t, flt) ==
    KeyResult("info",
              [key_name |-> Attr(item, "key_name", "S", "unknown"),
               permissions |-> Attr(item, "permissions", "SS", {})],
              "",
              RefreshLastUsed(tbl, k, t, flt),
              <<Op("get_item", "API_KEY", FALSE),
                Op("update_item", "API_KEY", flt["update_key"])>>)

\* ValidateApiKey refreshing last_used_at as soon as the record is found
ValidateApiKeyRefreshFirst(api_key, tbl, t, flt) ==
    IF api_key = "" THEN KeyResult("None", NoInfo, "", tbl, <<>>)
    ELSE
    LET k == ApiKeyKey(Sha256(api_key))
        got == <<Op("get_item", "API_KEY", flt["get_key"])>>
    IN  IF flt["get_key"] THEN KeyResult("None", NoInfo, "", tbl, got)
        ELSE IF k \notin DOMAIN tbl THEN KeyResult("None", NoInfo, "", tbl, got)
        ELSE IF ~Attr(tbl[k], "is_active", "BOOL", FALSE)
             THEN KeyResult("None", NoInfo, "", RefreshLastUsed(tbl, k, t, flt), got)
        ELSE LET e == ExpiryCheck(tbl[k], t)
             IN  IF e = "expired"
                 THEN KeyResult("None", NoInfo, "", RefreshLastUsed(tbl, k, t, flt), got)
                 ELSE IF e # "ok" THEN KeyResult("raise", NoInfo, e, tbl, got)
                 ELSE AcceptKey(tbl[k], tbl, k, t, flt)

ValidateApiKey(api_key, tbl, t, flt) ==
    IF api_key = "" THEN KeyResult("None", NoInfo, "", tbl, <<>>)
    ELSE
    LET k == ApiKeyKey(Sha256(api_key))
        got == <<Op("get_item", "API_KEY", flt["get_key"])>>
    IN  IF flt["get_key"] THEN KeyResult("None", NoInfo, "", tbl, got)
        ELSE IF k \notin DOMAIN tbl THEN KeyResult("None", NoInfo, "", tbl, got)
        ELSE IF ~Attr(tbl[k], "is_active", "BOOL", FALSE)
             THEN KeyResult("None", NoInfo, "", tbl, got)
        ELSE LET e == ExpiryCheck(tbl[k], t)
             IN  IF e = "expired" THEN KeyResult("None", NoInfo, "", tbl, got)
                 ELSE IF e # "ok" THEN KeyResult("raise", NoInfo, e, tbl, got)
                 ELSE AcceptKey(tbl[k], tbl, k, t, flt)

(***************************************************************************)
(* mcp_lambda.get_routing_prompt                                           *)
(* Result: the dict returned, and the store calls made.                    *)
(***************************************************************************)
JBool(b) == [bool |-> b]

ToolResult(result, tbl, log) == [result |-> result, table |-> tbl, ops |-> log]

McpGetRoutingPrompt(tbl, flt) ==
    LET log == <<Op("get_item", "CONFIG", flt["get_config"])>>
    IN  IF flt["get_config"]
        THEN ToolResult([error |-> JStr("Failed to get routing rules")], tbl, log)
        ELSE IF ConfigKey \notin DOMAIN tbl
        THEN ToolResult([error |-> JStr("Routing configuration not found"),
                         routing_rules |-> JNull,
                         enabled |-> JBool(FALSE),
                         note |-> JStr("Use update_routing_prompt")], tbl, log)
        ELSE ToolResult([routing_rules |-> JStr(Attr(tbl[ConfigKey], "routing_rules", "S", "")),
                         enabled |-> JBool(Attr(tbl[ConfigKey], "enabled", "BOOL", FALSE)),
                         model_id |-> JStr(Attr(tbl[ConfigKey], "model_id", "S", "")),
                         updated_at |-> JStr(Attr(tbl[ConfigKey], "updated_at", "S", "")),
                         note |-> JStr("Routing rules define business logic")], tbl, log)

(***************************************************************************)
(* mcp_lambda.update_routing_prompt                                        *)
(***************************************************************************)
\* Python truthiness of a value that is None or a str
Truthy(v) == "str" \in DOMAIN v /\ v.str # ""

\* ShouldArchive without the truthiness test: an empty rules text is archived too
ShouldArchiveEmptyToo(current) ==
    "routing_rules" \in DOMAIN current /\ "str" \in DOMAIN current["routing_rules"]

\* line 149: is there a current version to archive?
ShouldArchive(current) ==
    "routing_rules" \in DOMAIN current /\ Truthy(current["routing_rules"])

\* the item archived at lines 152-160, under the sort key routing_prompt#<timestamp>
HistoryItem(rules, timestamp) ==
    [routing_rules |-> [S |-> rules], archived_at |-> [S |-> timestamp]]

\* ArchiveCurrent putting no history entry
ArchiveCurrentNever(tbl, current, timestamp, flt) == tbl

ArchiveCurrent(tbl, current, timestamp, flt) ==
    IF ShouldArchive(current) /\ ~flt["put_history"]
    THEN PutItem(tbl, HistoryKey(timestamp),
                 HistoryItem(current["routing_rules"].str, timestamp))
    ELSE tbl

\* ConfigItem without the enabled attribute
ConfigItemNoEnabled(prompt, timestamp) ==
    [routing_rules |-> [S |-> prompt],
     updated_at |-> [S |-> timestamp]]

\* the item written at lines 166-175
ConfigItem(prompt, timestamp) ==
    [routing_rules |-> [S |-> prompt],
     enabled |-> [BOOL |-> TRUE],
     updated_at |-> [S |-> timestamp]]

\* UpdateRoutingPrompt without the inner try/except: a failed archive put ends the write
UpdateRoutingPromptArchiveFatal(prompt, tbl, t, flt) ==
    LET timestamp == IsoFormat(t)
        cur == McpGetRoutingPrompt(tbl, flt)
        log1 == cur.ops \o
                (IF ShouldArchive(cur.result)
                 THEN <<Op("put_item", "HISTORY", flt["put_history"])>> ELSE <<>>)
        log2 == log1 \o <<Op("put_item", "CONFIG", flt["put_config"])>>
    IN  IF ShouldArchive(cur.result) /\ flt["put_history"]
        THEN ToolResult([success |-> JBool(FALSE),
                         error |-> JStr("Failed to update routing rules")], tbl, log1)
        ELSE IF flt["put_config"]
        THEN ToolResult([success |-> JBool(FALSE),
                         error |-> JStr("Failed to update routing rules")],
                        ArchiveCurrent(tbl, cur.result, timestamp, flt), log2)
        ELSE ToolResult([success |-> JBool(TRUE),
                         updated_at |-> JStr(timestamp),
                         note |-> JStr("Routing rules updated")],
                        PutItem(ArchiveCurrent(tbl, cur.result, timestamp, flt),
                                ConfigKey, ConfigItem(prompt, timestamp)), log2)

UpdateRoutingPrompt(prompt, tbl, t, flt) ==
    LET timestamp == IsoFormat(t)
        cur == McpGetRoutingPrompt(tbl, flt)
        tbl1 == ArchiveCurrent(tbl, cur.result, timestamp, flt)
        log1 == cur.ops \o
                (IF ShouldArchive(cur.result)
                 THEN <<Op("put_item", "HISTORY", flt["put_history"])>> ELSE <<>>)
        log2 == log1 \o <<Op("put_item", "CONFIG", flt["put_config"])>>
    IN  IF flt["put_config"]
        THEN ToolResult([success |-> JBool(FALSE),
                         error |-> JStr("Failed to update routing rules")], tbl1, log2)
        ELSE ToolResult([success |-> JBool(TRUE),
                         updated_at |-> JStr(timestamp),
                         note |-> JStr("Routing rules updated")],
                        PutItem(tbl1, ConfigKey, ConfigItem(prompt, timestamp)), log2)

(***************************************************************************)
(* mcp_lambda.get_prompt_history                                           *)
(***************************************************************************)
\* the instant a HISTORY sort key names
SkTime(k) == FromIsoFormat(k[2][2])

\* ScanIndexForward=False: the keys in descending sort-key order
RECURSIVE Descending(_)
Descending(S) ==
    IF S = {} THEN <<>>
    ELSE LET m == CHOOSE k \in S : \A j \in S : SkTime(j) <= SkTime(k)
         IN  <<m>> \o Descending(S \ {m})

\* Limit=limit
Take(seq, n) == SubSeq(seq, 1, IF n < Len(seq) THEN n ELSE Len(seq))

GetPromptHistory(limit, tbl, flt) ==
    LET log == <<Op("query", "HISTORY", flt["query"])>>
        keys == Take(Descending(HistoryKeys(tbl)), limit)
    IN  IF flt["query"]
        THEN ToolResult([error |-> JStr("Failed to get routing rules history")], tbl, log)
        ELSE ToolResult(
               [versions |->
                  [i \in 1..Len(keys) |->
                     [routing_rules |-> JStr(Attr(tbl[keys[i]], "routing_rules", "S", "")),
                      archived_at |-> JStr(Attr(tbl[keys[i]], "archived_at", "S", ""))]]],
               tbl, log)

(***************************************************************************)
(* mcp_lambda.validate_prompt_syntax                                       *)
(* Rules texts are short literal strings; the texts used are listed with   *)
(* what str.strip, str.lower and `in` find in them.                        *)
(***************************************************************************)
BlankTexts == {"", " "}
RouteTexts == {"route all mail to support@example.com", "Route all mail to support@example.com",
               "route a -> b"}
ArrowTexts == {"invoice -> billing@example.com", "route a -> b"}

\* Suggestions without the test of the length
SuggestionsNoLength(prompt) ==
    IF prompt \notin RouteTexts /\ prompt \notin ArrowTexts
    THEN <<"Routing rules should specify where to route emails">> ELSE <<>>

Suggestions(prompt) ==
    (IF Len(prompt) < 20 THEN <<"Routing rules seem very short">> ELSE <<>>)
    \o (IF prompt \notin RouteTexts /\ prompt \notin ArrowTexts
        THEN <<"Routing rules should specify where to route emails">> ELSE <<>>)

ValidatePromptSyntax(prompt) ==
    IF prompt \in BlankTexts
    THEN [valid |-> JBool(FALSE),
          errors |-> <<"Routing rules cannot be empty">>,
          help |-> JStr("Provide routing logic")]
    ELSE IF Suggestions(prompt) # <<>>
    THEN [valid |-> JBool(TRUE),
          message |-> JStr("Routing rules are valid"),
          note |-> JStr("Email placeholders are handled by the system template"),
          suggestions |-> Suggestions(prompt)]
    ELSE [valid |-> JBool(TRUE),
          message |-> JStr("Routing rules are valid"),
          note |-> JStr("Email placeholders are handled by the system template")]

(***************************************************************************)
(* mcp_lambda.handler                                                      *)
(* json.dumps(x) is the text [json |-> x]; a text that is not JSON is      *)
(* [raw |-> ..]; a body of None is [none |-> TRUE].                        *)
(***************************************************************************)
Response(status, body) ==
    [statusCode |-> status,
     headers |-> ("Content-Type" :> "application/json"),
     body |-> body]

Raised(exc) == [exc |-> exc]

Outcome(r, st, log, tbl) == [resp |-> r, stages |-> st, ops |-> log, table |-> tbl]

AuthError(msg) == Response(401, [json |-> [error |-> JStr(msg)]])

RpcError(status, id, code, msg) ==
    Response(status, [json |-> [jsonrpc |-> JStr("2.0"), id |-> id,
                                error |-> [code |-> code, message |-> JStr(msg)]]])

RpcResult(id, result) ==
    Response(200, [json |-> [jsonrpc |-> JStr("2.0"), id |-> id, result |-> result]])

\* lines 281-285: the API key named by the Authorization header
ApiKeyOf(ev) ==
    LET headers == Get(ev, "headers", EmptyDict)
        auth_header == Get(headers, "authorization", Get(headers, "Authorization", <<>>))
    IN  Join(Strip(RemoveBearer(auth_header)))

\* line 305: event.get("body", "{}")
BodyOf(ev) == Get(ev, "body", [json |-> JObj(EmptyDict)])

\* PermissionDenied without the "all" wildcard
PermissionDeniedNoWildcard(method, permissions) ==
    /\ method \notin {JStr("initialize"), JStr("notifications/initialized")}
    /\ permissions # {}
    /\ ~("str" \in DOMAIN method /\ method.str \in permissions)

\* lines 341-344: is the method refused for this key?
PermissionDenied(method, permissions) ==
    /\ method \notin {JStr("initialize"), JStr("notifications/initialized")}
    /\ permissions # {}
    /\ ~("str" \in DOMAIN method /\ method.str \in permissions)
    /\ "all" \notin permissions

InitializeResult ==
    [protocolVersion |-> JStr("2025-03-26"),
     capabilities |-> [tools |-> [listChanged |-> JBool(FALSE)]],
     serverInfo |-> [name |-> JStr("email-routing-mcp"), version |-> JStr("1.0.0")]]

ToolNames ==
    <<"get_routing_prompt", "update_routing_prompt", "get_prompt_history",
      "validate_prompt_syntax">>

ToolsListResult == [tools |-> ToolNames]

\* lines 458-466
Wrap(tool_result) == [content |-> <<[type |-> JStr("text"), text |-> [json |-> tool_result]]>>]

\* lines 432-466: tools/call.  params is a dict here.
CallTool(id, params, tbl, t, flt, log, st) ==
    LET tool_name == Get(params, "name", JStr(""))
        tool_args == Get(params, "arguments", JObj(EmptyDict))
        done(r) == Outcome(RpcResult(id, Wrap(r.result)), st,
                           log \o r.ops, r.table)
        crash == Outcome(Raised("AttributeError"), st, log, tbl)
    IN  IF tool_name = JStr("get_routing_prompt")
        THEN done(McpGetRoutingPrompt(tbl, flt))
        ELSE IF tool_name = JStr("update_routing_prompt")
        THEN IF "obj" \notin DOMAIN tool_args THEN crash
             ELSE done(UpdateRoutingPrompt(Get(tool_args.obj, "prompt", JStr("")).str,
                                           tbl, t, flt))
        ELSE IF tool_name = JStr("get_prompt_history")
        THEN IF "obj" \notin DOMAIN tool_args THEN crash
             ELSE done(GetPromptHistory(Get(tool_args.obj, "limit", JNum(10)).num,
                                        tbl, flt))
        ELSE IF tool_name = JStr("validate_prompt_syntax")
        THEN IF "obj" \notin DOMAIN tool_args THEN crash
             ELSE done(ToolResult(
                         ValidatePromptSyntax(Get(tool_args.obj, "prompt", JStr("")).str),
                         tbl, <<>>))
        ELSE Outcome(RpcError(404, id, -32601, "Unknown tool"), st, log, tbl)

\* lines 358-490: route the method
Dispatch(id, method, params, tbl, t, flt, log, st0) ==
    LET st == Append(st0, "dispatch") IN
    IF method = JStr("initialize")
    THEN IF "obj" \notin DOMAIN params
         THEN Outcome(Raised("AttributeError"), st, log, tbl)
         ELSE Outcome(RpcResult(id, InitializeResult), st, log, tbl)
    ELSE IF method = JStr("notifications/initialized")
    THEN Outcome(Response(204, [raw |-> ""]), st, log, tbl)
    ELSE IF method = JStr("tools/list")
    THEN Outcome(RpcResult(id, ToolsListResult), st, log, tbl)
    ELSE IF method = JStr("tools/call")
    THEN IF "obj" \notin DOMAIN params
         THEN Outcome(Raised("AttributeError"), st, log, tbl)
         ELSE CallTool(id, params.obj, tbl, t, flt, log, st)
    ELSE Outcome(RpcError(404, id, -32601, "Unknown method"), st, log, tbl)

\* lines 336-356: extract the fields, check the permissions
Authorize(body, key_info, tbl, t, flt, log, st0) ==
    LET st == Append(st0, "authorize")
        request_id == Get(body, "id", JNull)
        method == Get(body, "method", JStr(""))
        params == Get(body, "params", JObj(EmptyDict))
    IN  IF PermissionDenied(method, key_info.permissions)
        THEN Outcome(RpcError(403, request_id, -32603, "API key does not have permission"),
                     st, log, tbl)
        ELSE Dispatch(request_id, method, params, tbl, t, flt, log, st)

\* lines 320-334: the protocol version
CheckVersion(parsed, key_info, tbl, t, flt, log, st0) ==
    LET st == Append(st0, "version") IN
    IF "obj" \notin DOMAIN parsed
    THEN Outcome(Raised("AttributeError"), st, log, tbl)
    ELSE IF Get(parsed.obj, "jsonrpc", JStr("")) # JStr("2.0")
    THEN Outcome(RpcError(400, Get(parsed.obj, "id", JNull), -32600, "Invalid Request"),
                 st, log, tbl)
    ELSE Authorize(parsed.obj, key_info, tbl, t, flt, log, st)

\* lines 303-318: json.loads of the body
ParseBody(ev, key_info, tbl, t, flt, log, st0) ==
    LET st == Append(st0, "parse") IN
    IF "none" \in DOMAIN BodyOf(ev)
    THEN Outcome(Raised("TypeError"), st, log, tbl)
    ELSE IF "json" \notin DOMAIN BodyOf(ev)
    THEN Outcome(RpcError(400, JNull, -32700, "Parse error"), st, log, tbl)
    ELSE CheckVersion(BodyOf(ev).json, key_info, tbl, t, flt, log, st)

\* lines 295-301: authenticate
Authenticate(ev, tbl, t, flt, st0) ==
    LET st == Append(st0, "authenticate")
        v == ValidateApiKey(ApiKeyOf(ev), tbl, t, flt)
    IN  IF v.kind = "raise"
        THEN Outcome(Raised(v.exc), st, v.ops, v.table)
        ELSE IF v.kind = "None"
        THEN Outcome(AuthError("Invalid or expired API key"), st,
                     v.ops, v.table)
        ELSE ParseBody(ev, v.info, v.table, t, flt, v.ops, st)

\* Handler parsing the body before it looks at the credential
HandlerParseFirst(ev, tbl, t, flt) ==
    IF "raw" \in DOMAIN BodyOf(ev)
    THEN Outcome(RpcError(400, JNull, -32700, "Parse error"), <<"parse">>, <<>>, tbl)
    ELSE IF ApiKeyOf(ev) = ""
    THEN Outcome(AuthError("Missing API key"), <<"credential">>, <<>>, tbl)
    ELSE Authenticate(ev, tbl, t, flt, <<"credential">>)

\* lines 267-301: the credential, then the rest
Handler(ev, tbl, t, flt) ==
    IF ApiKeyOf(ev) = ""
    THEN Outcome(AuthError("Missing API key"), <<"credential">>, <<>>, tbl)
    ELSE Authenticate(ev, tbl, t, flt, <<"credential">>)

(***************************************************************************)
(* lambda.get_routing_prompt: the Routing Configuration Reader.            *)
(* None is JNull; `failed` says whether get_item raises ClientError.       *)
(***************************************************************************)
\* LambdaGetRoutingPrompt without the test of the enabled flag
LambdaGetRoutingPromptIgnoresEnabled(routing_table, tbl, failed) ==
    IF routing_table = "" THEN JNull
    ELSE IF failed THEN JNull
    ELSE IF ConfigKey \notin DOMAIN tbl THEN JNull
    ELSE IF "prompt" \notin DOMAIN tbl[ConfigKey] THEN JNull
    ELSE JStr(Get(tbl[ConfigKey]["prompt"], "S", ""))

\* LambdaGetRoutingPrompt reading the record although the store call failed
LambdaGetRoutingPromptIgnoresFailure(routing_table, tbl, failed) ==
    IF routing_table = "" THEN JNull
    ELSE IF ConfigKey \notin DOMAIN tbl THEN JNull
    ELSE IF /\ "enabled" \in DOMAIN tbl[ConfigKey]
            /\ "BOOL" \in DOMAIN tbl[ConfigKey]["enabled"]
            /\ tbl[ConfigKey]["enabled"]["BOOL"] = FALSE
         THEN JNull
    ELSE IF "prompt" \notin DOMAIN tbl[ConfigKey] THEN JNull
    ELSE JStr(Get(tbl[ConfigKey]["prompt"], "S", ""))

LambdaGetRoutingPrompt(routing_table, tbl, failed) ==
    IF routing_table = "" THEN JNull
    ELSE IF failed THEN JNull
    ELSE IF ConfigKey \notin DOMAIN tbl THEN JNull
    ELSE IF /\ "enabled" \in DOMAIN tbl[ConfigKey]
            /\ "BOOL" \in DOMAIN tbl[ConfigKey]["enabled"]
            /\ tbl[ConfigKey]["enabled"]["BOOL"] = FALSE
         THEN JNull
    ELSE IF "prompt" \notin DOMAIN tbl[ConfigKey] THEN JNull
    ELSE JStr(Get(tbl[ConfigKey]["prompt"], "S", ""))

(***************************************************************************)
(* lambda.extract_email_content                                            *)
(* A parsed message is [multipart |-> FALSE, content_type, disposition,    *)
(* payload] or [multipart |-> TRUE, content_type, disposition, parts]; a   *)
(* payload is the sequence of its bytes after transfer decoding, a text    *)
(* the sequence of its characters ("" is <<>>).                            *)
(***************************************************************************)
\* a byte that is not valid UTF-8
BadByte == "\\xff"

\* bytes.decode('utf-8', errors='ignore'): the invalid bytes are dropped
RECURSIVE Decode(_)
Decode(payload) ==
    IF payload = <<>> THEN <<>>
    ELSE (IF Head(payload) = BadByte THEN <<>> ELSE <<Head(payload)>>) \o Decode(Tail(payload))

\* the Content-Disposition texts in which `'attachment' in` finds the word
AttachmentTexts == {"attachment", "inline; filename=attachment.txt"}

\* msg.walk(): the message itself, then its parts
Walk(msg) ==
    <<[content_type |-> msg.content_type, disposition |-> msg.disposition, payload |-> <<>>]>>
    \o msg.parts

\* the loop of lines 40-55 over the parts left, from the text and html found so far
RECURSIVE ExtractParts(_, _, _)
ExtractParts(parts, text_content, html_content) ==
    IF parts = <<>> THEN [text |-> text_content, html |-> html_content]
    ELSE LET part == Head(parts)
         IN  IF part.disposition \in AttachmentTexts
             THEN ExtractParts(Tail(parts), text_content, html_content)
             ELSE IF part.content_type = "text/plain"
             THEN ExtractParts(Tail(parts), Decode(part.payload), html_content)
             ELSE IF part.content_type = "text/html"
             THEN ExtractParts(Tail(parts), text_content, Decode(part.payload))
             ELSE ExtractParts(Tail(parts), text_content, html_content)

ExtractEmailContent(original_msg) ==
    IF original_msg.multipart THEN ExtractParts(Walk(original_msg), <<>>, <<>>)
    ELSE IF original_msg.content_type = "text/plain"
    THEN [text |-> Decode(original_msg.payload), html |-> <<>>]
    ELSE IF original_msg.content_type = "text/html"
    THEN [text |-> <<>>, html |-> Decode(original_msg.payload)]
    ELSE [text |-> <<>>, html |-> <<>>]

(***************************************************************************)
(* lambda.get_ai_routing_decision                                          *)
(* The text of the model's answer is a sequence of tokens: the characters  *)
(* "{" and "}", stretches of prose, and the members of a JSON object (the  *)
(* text between its braces).                                               *)
(***************************************************************************)
Open == [ch |-> "{"]
Close == [ch |-> "}"]

\* str.find and str.rfind: the 0-based position of the first / last c, or -1
Find(toks, c) ==
    IF \E i \in 1..Len(toks) : toks[i] = c
    THEN (CHOOSE i \in 1..Len(toks) : toks[i] = c /\ \A j \in 1..(i - 1) : toks[j] # c) - 1
    ELSE -1

RFind(toks, c) ==
    IF \E i \in 1..Len(toks) : toks[i] = c
    THEN (CHOOSE i \in 1..Len(toks) : toks[i] = c /\ \A j \in (i + 1)..Len(toks) : toks[j] # c) - 1
    ELSE -1

\* toks[a:b] for 0 <= a
Slice(toks, a, b) == SubSeq(toks, a + 1, b)

\* json.loads of a text that starts at a "{": the object, or JSONDecodeError
JsonLoads(toks) ==
    IF toks = <<Open, Close>> THEN JObj(EmptyDict)
    ELSE IF Len(toks) = 3 /\ toks[1] = Open /\ toks[3] = Close /\ "members" \in DOMAIN toks[2]
    THEN JObj(toks[2].members)
    ELSE [exc |-> "JSONDecodeError"]

\* a call of an AWS client made by the forwarding invocation
FwdCall(name, ok) == [call |-> name, ok |-> ok]

\* lines 179-205: from the answer's text to the decision (None is JNull)
ParseDecision(ai_response) ==
    LET json_start == Find(ai_response, Open)
        json_end == RFind(ai_response, Close) + 1
        routing_decision == JsonLoads(Slice(ai_response, json_start, json_end))
    IN  IF json_start = -1 \/ json_end = 0 THEN JNull
        ELSE IF "exc" \in DOMAIN routing_decision THEN JNull
        ELSE IF "route_to" \notin DOMAIN routing_decision.obj THEN JNull
        ELSE routing_decision

\* lines 174-175: response_body['content'][0]['text'], or the exception it raises
AiResponseText(body) ==
    IF "json" \notin DOMAIN body THEN [exc |-> "JSONDecodeError"]
    ELSE IF "obj" \notin DOMAIN body.json THEN [exc |-> "TypeError"]
    ELSE IF "content" \notin DOMAIN body.json.obj THEN [exc |-> "KeyError"]
    ELSE IF "arr" \notin DOMAIN body.json.obj["content"] THEN [exc |-> "TypeError"]
    ELSE IF body.json.obj["content"].arr = <<>> THEN [exc |-> "IndexError"]
    ELSE IF "obj" \notin DOMAIN body.json.obj["content"].arr[1] THEN [exc |-> "TypeError"]
    ELSE IF "text" \notin DOMAIN body.json.obj["content"].arr[1].obj THEN [exc |-> "KeyError"]
    ELSE body.json.obj["content"].arr[1].obj["text"]

\* get_ai_routing_decision: the decision or None, and the client calls made.
\* `inference` is what bedrock.invoke_model does: [error |-> code] for a ClientError,
\* [exc |-> name] for another exception, [body |-> text] for an answer.
GetAiRoutingDecision(routing_table, tbl, store_failed, inference) ==
    LET routing_prompt == LambdaGetRoutingPrompt(routing_table, tbl, store_failed)
        read == IF routing_table = "" THEN <<>>
                ELSE <<FwdCall("dynamodb.get_item", ~store_failed)>>
        invoke == [call |-> "bedrock.invoke_model", ok |-> "body" \in DOMAIN inference,
                   rules |-> routing_prompt, out |-> inference]
        text == AiResponseText(inference.body)
    IN  IF routing_prompt = JNull \/ routing_prompt = JStr("")
        THEN [decision |-> JNull, calls |-> read]
        ELSE IF "body" \notin DOMAIN inference
        THEN [decision |-> JNull, calls |-> read \o <<invoke>>]
        ELSE IF "exc" \in DOMAIN text \/ "toks" \notin DOMAIN text
        THEN [decision |-> JNull, calls |-> read \o <<invoke>>]
        ELSE [decision |-> ParseDecision(text.toks), calls |-> read \o <<invoke>>]

(***************************************************************************)
(* lambda.create_forwarding_context and lambda.handler                     *)
(* Header values and subjects are strings; the texts of the message parts  *)
(* are sequences of characters, as the extractor returns them.             *)
(***************************************************************************)
FORWARD_TO == "default@example.com"
FROM_ADDRESS == "forwarder@example.com"

\* html.escape, on the header values used
HtmlEscape(v) ==
    IF v = "Ann <ann@x.com>" THEN "Ann &lt;ann@x.com&gt;"
    ELSE IF v = "<" THEN "&lt;"
    ELSE IF v = ">" THEN "&gt;"
    ELSE IF v = "&" THEN "&amp;"
    ELSE v

\* parseaddr(orig_from)[0], on the header values used
DisplayName(v) == IF v = "Ann <ann@x.com>" THEN "Ann" ELSE ""

\* formataddr((name, address))
FormatAddr(name, address) == IF name = "" THEN address ELSE name \o " <" \o address \o ">"

ContextText(orig_from, orig_to, orig_date) ==
    <<"---------- Forwarded message ----------\n", "From: ", orig_from, "\n",
      "To: ", orig_to, "\n", "Date: ", orig_date, "\n\n">>

ContextHtml(orig_from, orig_to, orig_date) ==
    <<"<div>", "<strong>---------- Forwarded message ----------</strong><br>",
      "<strong>From:</strong> ", HtmlEscape(orig_from), "<br>",
      "<strong>To:</strong> ", HtmlEscape(orig_to), "<br>",
      "<strong>Date:</strong> ", HtmlEscape(orig_date), "<br>", "</div>">>

NoTextPlaceholder == <<"(Original message had no text content)">>

\* text_content.replace('\n', '<br>\n')
RECURSIVE BreakLines(_)
BreakLines(text) ==
    IF text = <<>> THEN <<>>
    ELSE <<IF Head(text) = "\n" THEN "<br>\n" ELSE Head(text)>> \o BreakLines(Tail(text))

\* ' '.join(strs)
RECURSIVE JoinSpace(_)
JoinSpace(strs) ==
    IF strs = <<>> THEN ""
    ELSE IF Len(strs) = 1 THEN strs[1]
    ELSE strs[1] \o " " \o JoinSpace(Tail(strs))

\* IsTruthy taking every list, the empty one too, for true
IsTruthyAnyList(v) ==
    \/ "str" \in DOMAIN v /\ v.str # ""
    \/ "num" \in DOMAIN v /\ v.num # 0
    \/ "arr" \in DOMAIN v
    \/ "bool" \in DOMAIN v /\ v.bool

\* truthiness of a JSON value
IsTruthy(v) ==
    \/ "str" \in DOMAIN v /\ v.str # ""
    \/ "num" \in DOMAIN v /\ v.num # 0
    \/ "arr" \in DOMAIN v /\ v.arr # <<>>
    \/ "bool" \in DOMAIN v /\ v.bool

\* the characters of a string, on the strings used
Chars(v) == IF v = "ab" THEN <<"a", "b">> ELSE <<>>

\* what `for x in v` goes through for a JSON value of strings, or TypeError
Iterate(v) ==
    IF "arr" \in DOMAIN v THEN [items |-> [i \in 1..Len(v.arr) |-> v.arr[i].str]]
    ELSE IF "str" \in DOMAIN v THEN [items |-> Chars(v.str)]
    ELSE [exc |-> "TypeError"]

\* lines 301-335: the outbound message for one recipient
\* OutboundMessage with the text part built without the no-text placeholder
OutboundMessageNoPlaceholder(formatted_from, recipient, final_subject, orig_from, context_text, context_html, text_content, html_content, raw_bytes) ==
    LET text_part == [subtype |-> "plain", text |-> context_text \o text_content]
        html_parts ==
            IF html_content # <<>>
            THEN <<[subtype |-> "html", text |-> context_html \o html_content]>>
            ELSE IF text_content # <<>>
            THEN <<[subtype |-> "html",
                    text |-> context_html \o <<"<div>">> \o BreakLines(text_content)
                             \o <<"</div>">>]>>
            ELSE <<>>
        headers == [From |-> formatted_from, To |-> recipient, Subject |-> final_subject]
    IN  [headers |-> IF orig_from # "" THEN headers @@ [ReplyTo |-> orig_from] ELSE headers,
         body |-> <<text_part>> \o html_parts,
         attachment |-> [filename |-> "original.eml", subtype |-> "rfc822",
                         data |-> raw_bytes]]

OutboundMessage(formatted_from, recipient, final_subject, orig_from, context_text, context_html, text_content, html_content, raw_bytes) ==
    LET text_part == [subtype |-> "plain",
                      text |-> IF text_content # <<>> THEN context_text \o text_content
                               ELSE context_text \o NoTextPlaceholder]
        html_parts ==
            IF html_content # <<>>
            THEN <<[subtype |-> "html", text |-> context_html \o html_content]>>
            ELSE IF text_content # <<>>
            THEN <<[subtype |-> "html",
                    text |-> context_html \o <<"<div>">> \o BreakLines(text_content)
                             \o <<"</div>">>]>>
            ELSE <<>>
        headers == [From |-> formatted_from, To |-> recipient, Subject |-> final_subject]
    IN  [headers |-> IF orig_from # "" THEN headers @@ [ReplyTo |-> orig_from] ELSE headers,
         body |-> <<text_part>> \o html_parts,
         attachment |-> [filename |-> "original.eml", subtype |-> "rfc822",
                         data |-> raw_bytes]]

\* what the forwarding invocation leaves: its result (or the exception it re-raises),
\* its client calls in order, the raw message fetched, the parsed message, the content,
\* the decision of the engine and the recipients resolved
FwdOutcome(result, calls, raw_bytes, original, content, decision, resolved) ==
    [result |-> result, calls |-> calls, raw_bytes |-> raw_bytes,
     original |-> original, content |-> content, decision |-> decision,
     resolved |-> resolved]

\* the value of a local the invocation did not get to
Unset == [none |-> TRUE]

\* FinalSubject putting the separator in front of the subject even without tags
FinalSubjectAlwaysJoined(subject_tags, subject) == subject_tags \o " " \o subject

\* line 279
FinalSubject(subject_tags, subject) ==
    IF subject_tags # "" THEN subject_tags \o " " \o subject ELSE subject

\* email.message_from_bytes
MessageFromBytes(raw_bytes) == raw_bytes.parsed

\* AttemptsMade going on to the remaining recipients after a failed send
AttemptsMadeAll(n, send_fail) == n

\* the sends the loop of lines 291-343 gets to make for n recipients: the exception of
\* a failed send leaves the loop
AttemptsMade(n, send_fail) == IF send_fail \in 1..n THEN send_fail ELSE n

\* lambda.handler.  `send_fail` is the position of the send that fails (0: none).
ForwardHandler(ses_event, s3_object, ai_routing_enabled, routing_table, tbl, store_failed, inference, send_fail) ==
    IF ses_event.Records = <<>>
    THEN FwdOutcome([exc |-> "IndexError"], <<>>, Unset, Unset, Unset, Unset, Unset)
    ELSE IF "Body" \notin DOMAIN s3_object
    THEN FwdOutcome([exc |-> "ClientError"], <<FwdCall("s3.get_object", FALSE)>>,
                    Unset, Unset, Unset, Unset, Unset)
    ELSE
    LET recipients == ses_event.Records[1].ses.receipt.recipients
        actual_recipient == IF recipients # <<>> THEN recipients[1] ELSE ""
        raw_bytes == s3_object.Body
        original == MessageFromBytes(raw_bytes)
        orig_from == Get(original.headers, "From", "")
        orig_date == Get(original.headers, "Date", "")
        subject == Get(original.headers, "Subject", "")
        content == ExtractEmailContent(original)
        ai == IF ai_routing_enabled
              THEN GetAiRoutingDecision(routing_table, tbl, store_failed, inference)
              ELSE [decision |-> JNull, calls |-> <<>>]
        applied == ai.decision # JNull /\ IsTruthy(ai.decision.obj["route_to"])
        tags == IF applied THEN Iterate(Get(ai.decision.obj, "tags", JArr(<<>>)))
                ELSE [items |-> <<>>]
        subject_tags == JoinSpace([i \in 1..Len(tags.items) |-> "[" \o tags.items[i] \o "]"])
        final_subject == FinalSubject(subject_tags, subject)
        forward_to_addresses == IF applied THEN Iterate(ai.decision.obj["route_to"])
                                ELSE [items |-> <<FORWARD_TO>>]
        formatted_from == FormatAddr(DisplayName(orig_from), FROM_ADDRESS)
        n == Len(forward_to_addresses.items)
        attempts == AttemptsMade(n, send_fail)
        sends == [i \in 1..attempts |->
                    [call |-> "ses.send_raw_email", ok |-> i # send_fail,
                     msg |-> OutboundMessage(formatted_from, forward_to_addresses.items[i],
                                final_subject, orig_from,
                                ContextText(orig_from, actual_recipient, orig_date),
                                ContextHtml(orig_from, actual_recipient, orig_date),
                                content.text, content.html, raw_bytes)]]
        before == <<FwdCall("s3.get_object", TRUE)>> \o ai.calls
        decision == IF ai_routing_enabled THEN ai.decision ELSE Unset
    IN  IF "exc" \in DOMAIN tags \/ "exc" \in DOMAIN forward_to_addresses
        THEN FwdOutcome([exc |-> "TypeError"], before, raw_bytes, original, content,
                        decision, Unset)
        ELSE IF send_fail \in 1..n
        THEN FwdOutcome([exc |-> "ClientError"], before \o sends, raw_bytes, original, content,
                        decision, forward_to_addresses)
        ELSE FwdOutcome([status |-> "ok"], before \o sends, raw_bytes, original, content,
                        decision, forward_to_addresses)

(***************************************************************************)
(* Inputs: credentials, API-key records, configuration records, events     *)
(***************************************************************************)
\* a dict from the optional entries given as a set of <<key, value>> pairs
Dict(pairs) == [k \in {p[1] : p \in pairs} |-> (CHOOSE p \in pairs : p[1] = k)[2]]

\* the credential whose hash the stored API_KEY record is filed under, and another
GoodKey == "k1"
OtherKey == "k2"

ActiveAttrs == {{}, {<<"is_active", [BOOL |-> TRUE]>>}, {<<"is_active", [BOOL |-> FALSE]>>},
                {<<"is_active", [S |-> "true"]>>}}

ExpiryAttrs ==
    {{}, {<<"expires_at", [S |-> "not-a-date"]>>}, {<<"expires_at", [N |-> "1"]>>}}
    \cup {{<<"expires_at", [S |-> IsoFormat(t)]>>} : t \in Times}

PermissionAttrs ==
    {{}, {<<"permissions", [SS |-> {"all"}]>>}, {<<"permissions", [SS |-> {"tools/list"}]>>},
     {<<"permissions", [SS |-> {"tools/call"}]>>}}

NameAttr == {<<"key_name", [S |-> "desktop"]>>}

\* API_KEY records: every activity/expiry shape, and every permission set on a usable key
KeyItems ==
    {Dict(a \cup e \cup NameAttr) : a \in ActiveAttrs, e \in ExpiryAttrs}
    \cup {Dict({<<"is_active", [BOOL |-> TRUE]>>} \cup p) : p \in PermissionAttrs}

\* a usable key allowed every method
UsableKeyItems == {Dict({<<"is_active", [BOOL |-> TRUE]>>})}

TableWith(keyItems, configItems) ==
    {Dict(k \cup c) :
        k \in {{}} \cup {{<<ApiKeyKey(Sha256(GoodKey)), i>>} : i \in keyItems},
        c \in {{}} \cup {{<<ConfigKey, i>>} : i \in configItems}}

\* a CONFIG record as an earlier deployment left it: disabled, with a model_id
LegacyConfigItem ==
    [routing_rules |-> [S |-> "A"], enabled |-> [BOOL |-> FALSE],
     model_id |-> [S |-> "m1"], updated_at |-> [S |-> IsoFormat(0)]]

\* the CONFIG records the reader is tried on
EnabledAttrs == {{}, {<<"enabled", [BOOL |-> TRUE]>>}, {<<"enabled", [BOOL |-> FALSE]>>},
                 {<<"enabled", [NULL |-> TRUE]>>}}
PromptAttrs == {{}} \cup {{<<"prompt", [S |-> s]>>} : s \in {"", "A", "B"}}
RulesAttrs == {{}, {<<"routing_rules", [S |-> "A"]>>}}

ReaderConfigItems ==
    {Dict(e \cup p \cup r) : e \in EnabledAttrs, p \in PromptAttrs, r \in RulesAttrs}

\* the Authorization header, as tokens
Bearer(key) == <<"Bearer ", key>>

HeaderDicts ==
    {EmptyDict,
     [authorization |-> <<>>],
     [authorization |-> <<"Bearer ">>],
     [authorization |-> <<"Bearer ", " ">>],
     [authorization |-> <<GoodKey>>],
     [authorization |-> <<" ", GoodKey, " ">>],
     [authorization |-> Bearer(GoodKey)],
     [authorization |-> Bearer(OtherKey)],
     [Authorization |-> Bearer(GoodKey)],
     [authorization |-> Bearer(OtherKey), Authorization |-> Bearer(GoodKey)]}

Rpc(pairs) == [json |-> JObj(Dict({<<"jsonrpc", JStr("2.0")>>} \cup pairs))]

Call(id, name, argPairs) ==
    Rpc({<<"id", id>>, <<"method", JStr("tools/call")>>,
         <<"params", JObj(Dict({<<"name", JStr(name)>>,
                                <<"arguments", JObj(Dict(argPairs))>>}))>>})

\* bodies that read or change nothing in the CONFIG and HISTORY records' place
ProbeBodies ==
    {[none |-> TRUE], [raw |-> "{not json"],
     [json |-> JArr(<<>>)], [json |-> JNull], [json |-> JNum(1)],
     [json |-> JObj(EmptyDict)],
     [json |-> JObj([jsonrpc |-> JStr("1.0"), id |-> JNum(1), method |-> JStr("tools/list")])],
     [json |-> JObj([jsonrpc |-> JNum(2), id |-> JNum(1)])],
     Rpc({}),
     Rpc({<<"id", JNum(1)>>}),
     Rpc({<<"id", JNum(1)>>, <<"method", JStr("initialize")>>}),
     Rpc({<<"id", JNum(1)>>, <<"method", JStr("initialize")>>, <<"params", JNull>>}),
     Rpc({<<"method", JStr("notifications/initialized")>>}),
     Rpc({<<"id", JStr("a")>>, <<"method", JStr("tools/list")>>}),
     Rpc({<<"id", JNum(1)>>, <<"method", JStr("resources/list")>>}),
     Rpc({<<"id", JNum(1)>>, <<"method", JNum(5)>>}),
     Rpc({<<"id", JNum(1)>>, <<"method", JStr("tools/call")>>}),
     Rpc({<<"id", JNum(1)>>, <<"method", JStr("tools/call")>>, <<"params", JNull>>}),
     Rpc({<<"id", JNum(1)>>, <<"method", JStr("tools/call")>>,
          <<"params", JObj([name |-> JStr("get_routing_prompt"), arguments |-> JNull])>>}),
     Rpc({<<"id", JNum(1)>>, <<"method", JStr("tools/call")>>,
          <<"params", JObj([name |-> JStr("validate_prompt_syntax"), arguments |-> JArr(<<>>)])>>}),
     Call(JNum(1), "delete_routing_prompt", {}),
     Call(JNum(2), "get_routing_prompt", {}),
     Call(JNum(1), "get_prompt_history", {}),
     Call(JNum(1), "get_prompt_history", {<<"limit", JNum(1)>>}),
     Call(JNum(1), "validate_prompt_syntax", {}),
     Call(JNum(1), "validate_prompt_syntax", {<<"prompt", JStr(" ")>>}),
     Call(JNum(1), "validate_prompt_syntax", {<<"prompt", JStr("A")>>}),
     Call(JNum(1), "validate_prompt_syntax", {<<"prompt", JStr("route a -> b")>>}),
     Call(JNum(1), "validate_prompt_syntax",
          {<<"prompt", JStr("Route all mail to support@example.com")>>}),
     Call(JNum(1), "validate_prompt_syntax",
          {<<"prompt", JStr("invoice -> billing@example.com")>>}),
     Call(JNum(1), "validate_prompt_syntax",
          {<<"prompt", JStr("send all mail to support@example.com")>>}),
     Call(JNum(1), "validate_prompt_syntax",
          {<<"prompt", JStr("route all mail to support@example.com")>>})}

\* the rules texts written
Prompts == {"", "B"}

WriteBodies ==
    {Call(JNum(1), "update_routing_prompt", {})}
    \cup {Call(JNum(1), "update_routing_prompt", {<<"prompt", JStr(s)>>}) : s \in Prompts}

\* every header with one body, and every body with the header of the good key
EventsOver(bodies) ==
    {[headers |-> h, body |-> Call(JNum(2), "get_routing_prompt", {})] : h \in HeaderDicts}
    \cup {[headers |-> [authorization |-> Bearer(GoodKey)], body |-> b] : b \in bodies}
    \cup {[headers |-> [authorization |-> Bearer(GoodKey)]],
          [body |-> Rpc({<<"id", JNum(1)>>, <<"method", JStr("tools/list")>>})],
          [body |-> [raw |-> "{not json"]],
          [headers |-> [authorization |-> Bearer(OtherKey)], body |-> [raw |-> "{not json"]]}

ProtocolEvents == EventsOver(ProbeBodies)

ConfigEvents ==
    {[headers |-> [authorization |-> Bearer(GoodKey)], body |-> b] :
        b \in WriteBodies \cup {Call(JNum(2), "get_routing_prompt", {}),
                                Call(JNum(1), "get_prompt_history", {})}}

(***************************************************************************)
(* State machine                                                           *)
(***************************************************************************)
NotYet == [init |-> TRUE]

\* the rules value of the current CONFIG record, if it has one
CurrentRules(tbl) ==
    IF ConfigKey \in DOMAIN tbl /\ "routing_rules" \in DOMAIN tbl[ConfigKey]
    THEN {Attr(tbl[ConfigKey], "routing_rules", "S", "")} ELSE {}

Did(log, name, pk, ok) == \E i \in 1..Len(log) : log[i] = [op |-> name, pk |-> pk, ok |-> ok]

\* the invocation put the CONFIG record
Wrote(log) == Did(log, "put_item", "CONFIG", TRUE)

\* the invocation ran update_routing_prompt
WriteCall(log) == Did(log, "put_item", "CONFIG", TRUE) \/ Did(log, "put_item", "CONFIG", FALSE)

\* a store call of the archive path (read current, put history entry) failed
ArchivePathFailed(log) ==
    WriteCall(log) /\ (Did(log, "get_item", "CONFIG", FALSE) \/ Did(log, "put_item", "HISTORY", FALSE))

\* two invocations of update_routing_prompt running at once
Writers == {"w1", "w2"}

\* a writer that has not started
Idle == [pc |-> "idle", prompt |-> "", timestamp |-> "", current |-> [none |-> TRUE]]

InitWith(tables, envs) ==
    /\ table \in tables
    /\ now = 0
    /\ event = NotYet
    /\ resp = NotYet
    /\ stages = <<>>
    /\ ops = <<>>
    /\ overwritten = {}
    /\ archiveFailed = FALSE
    /\ routingTable \in envs
    /\ readerOut = NotYet
    /\ inbound = NotYet
    /\ extracted = NotYet
    /\ fwd = NotYet
    /\ writers = [w \in Writers |-> Idle]

\* one invocation of mcp_lambda.handler, from the event to the return or the raise
Request(ev, flt) ==
    LET o == Handler(ev, table, now, flt)
    IN  /\ event = NotYet
        /\ table' = o.table
        /\ event' = ev
        /\ resp' = o.resp
        /\ stages' = o.stages
        /\ ops' = o.ops
        /\ overwritten' = IF Wrote(o.ops) THEN overwritten \cup CurrentRules(table)
                          ELSE overwritten
        /\ archiveFailed' = (archiveFailed \/ ArchivePathFailed(o.ops))
        /\ UNCHANGED <<now, routingTable, readerOut, inbound, extracted, fwd, writers>>

\* the runtime hands the outcome to the caller; the handler is ready for the next event
Deliver ==
    /\ event # NotYet
    /\ event' = NotYet
    /\ resp' = NotYet
    /\ stages' = <<>>
    /\ ops' = <<>>
    /\ UNCHANGED <<table, now, overwritten, archiveFailed, routingTable, readerOut,
                   inbound, extracted, fwd, writers>>

\* the clock advances between invocations (an invocation reads it once, as `now`)
Tick ==
    /\ event = NotYet
    /\ now < MaxTime
    /\ now' = now + 1
    /\ UNCHANGED <<table, event, resp, stages, ops, overwritten, archiveFailed,
                   routingTable, readerOut, inbound, extracted, fwd, writers>>

\* one call of lambda.get_routing_prompt
ReadConfig(failed) ==
    /\ readerOut' = [out |-> LambdaGetRoutingPrompt(routingTable, table, failed),
                     failed |-> failed]
    /\ UNCHANGED <<table, now, event, resp, stages, ops, overwritten, archiveFailed,
                   routingTable, inbound, extracted, fwd, writers>>

\* The protocol handler on every key record and every request that writes no rules.
InitProtocol == InitWith(TableWith(KeyItems, {LegacyConfigItem}), {"ai-email-routing"})
ProtocolRequest ==
    \E ev \in ProtocolEvents, flt \in ProtocolFaults :
        Request(ev, flt)
NextProtocol == ProtocolRequest \/ Deliver \/ Tick
SpecProtocol == InitProtocol /\ [][NextProtocol]_vars

\* Reads and writes of the routing rules by a usable key.
InitConfig == InitWith(TableWith(UsableKeyItems, {LegacyConfigItem}), {"ai-email-routing"})
ConfigRequest ==
    \E ev \in ConfigEvents, flt \in ConfigFaults :
        Request(ev, flt)
NextConfig == ConfigRequest \/ Deliver \/ Tick
SpecConfig == InitConfig /\ [][NextConfig]_vars

\* The forwarding path's reader on every shape of CONFIG record.
InitReader == InitWith(TableWith({}, ReaderConfigItems), {"", "ai-email-routing"})
ReaderCall == \E failed \in BOOLEAN : ReadConfig(failed)
NextReader == ReaderCall
SpecReader == InitReader /\ [][NextReader]_vars

\* The protocol handler writes the rules and the forwarding path reads them.
InitShared == InitWith(TableWith(UsableKeyItems, {LegacyConfigItem}), {"ai-email-routing"})
SharedRequest ==
    \E ev \in {[headers |-> [authorization |-> Bearer(GoodKey)], body |-> b] : b \in WriteBodies} :
        Request(ev, NoFault)
NextShared == SharedRequest \/ Deliver \/ Tick \/ ReaderCall
SpecShared == InitShared /\ [][NextShared]_vars

\* Every kind of request, writes included, on usable, restricted, inactive and expiring keys.
FrameKeyItems ==
    {Dict({<<"is_active", [BOOL |-> TRUE]>>}),
     Dict({<<"is_active", [BOOL |-> TRUE]>>, <<"permissions", [SS |-> {"tools/list"}]>>}),
     Dict({<<"is_active", [BOOL |-> FALSE]>>}),
     Dict({<<"is_active", [BOOL |-> TRUE]>>, <<"expires_at", [S |-> IsoFormat(0)]>>})}

FrameEvents ==
    ProtocolEvents
    \cup {[headers |-> h, body |-> b] :
            h \in {[authorization |-> Bearer(GoodKey)], [authorization |-> Bearer(OtherKey)]},
            b \in WriteBodies}

InitFrame == InitWith(TableWith(FrameKeyItems, {LegacyConfigItem}), {"ai-email-routing"})
FrameRequest ==
    \E ev \in FrameEvents, flt \in FaultsOver({"put_config"}) :
        Request(ev, flt)
NextFrame == FrameRequest \/ Deliver \/ Tick
SpecFrame == InitFrame /\ [][NextFrame]_vars

\* update_routing_prompt, one store operation at a time (lines 144-175).
RacePrompts == {"B", "C"}

\* lines 145-148: the timestamp is taken and the current record is read
WriterRead(w, prompt) ==
    /\ writers[w].pc = "idle"
    /\ writers' = [writers EXCEPT ![w] =
                     [pc |-> "archive", prompt |-> prompt, timestamp |-> IsoFormat(now),
                      current |-> McpGetRoutingPrompt(table, NoFault).result]]
    /\ UNCHANGED <<table, now, event, resp, stages, ops, overwritten, archiveFailed,
                   routingTable, readerOut, inbound, extracted, fwd>>

\* lines 149-163: the value read is archived, if there is one
WriterArchive(w) ==
    /\ writers[w].pc = "archive"
    /\ table' = ArchiveCurrent(table, writers[w].current, writers[w].timestamp, NoFault)
    /\ writers' = [writers EXCEPT ![w].pc = "put"]
    /\ UNCHANGED <<now, event, resp, stages, ops, overwritten, archiveFailed,
                   routingTable, readerOut, inbound, extracted, fwd>>

\* lines 165-175: the CONFIG record is put
WriterPut(w) ==
    /\ writers[w].pc = "put"
    /\ table' = PutItem(table, ConfigKey, ConfigItem(writers[w].prompt, writers[w].timestamp))
    /\ overwritten' = overwritten \cup CurrentRules(table)
    /\ writers' = [writers EXCEPT ![w].pc = "done"]
    /\ UNCHANGED <<now, event, resp, stages, ops, archiveFailed,
                   routingTable, readerOut, inbound, extracted, fwd>>

InitRace == InitWith(TableWith(UsableKeyItems, {LegacyConfigItem}), {"ai-email-routing"})
WriterReadAny == \E w \in Writers, prompt \in RacePrompts : WriterRead(w, prompt)
WriterArchiveAny == \E w \in Writers : WriterArchive(w)
WriterPutAny == \E w \in Writers : WriterPut(w)
NextRace == WriterReadAny \/ WriterArchiveAny \/ WriterPutAny \/ Tick
SpecRace == InitRace /\ [][NextRace]_vars

\* Parsed messages: every part shape, up to MaxParts parts.
ContentTypes == {"text/plain", "text/html", "application/pdf"}
Dispositions == {"", "attachment", "Attachment", "inline; filename=attachment.txt"}
Payloads == {<<"a">>, <<"b", BadByte>>}

Parts == [content_type : ContentTypes, disposition : Dispositions, payload : Payloads]

SinglePartMessages == {[multipart |-> FALSE, content_type |-> p.content_type,
                        disposition |-> p.disposition, payload |-> p.payload] : p \in Parts}

MultipartMessages ==
    {[multipart |-> TRUE, content_type |-> "multipart/mixed", disposition |-> "", parts |-> ps] :
        ps \in UNION {[1..n -> Parts] : n \in 0..MaxParts}}

Messages == SinglePartMessages \cup MultipartMessages

\* email.message_from_bytes hands a parsed message to the extractor
Parse(msg) ==
    /\ inbound = NotYet
    /\ inbound' = msg
    /\ UNCHANGED <<table, now, event, resp, stages, ops, overwritten, archiveFailed,
                   routingTable, readerOut, extracted, fwd, writers>>

\* one call of extract_email_content
Extract ==
    /\ inbound # NotYet
    /\ extracted' = ExtractEmailContent(inbound)
    /\ UNCHANGED <<table, now, event, resp, stages, ops, overwritten, archiveFailed,
                   routingTable, readerOut, inbound, fwd, writers>>

\* The extractor on every message.
InitExtract == InitWith({EmptyDict}, {""})
ParseAny == \E msg \in Messages : Parse(msg)
NextExtract == ParseAny \/ Extract
SpecExtract == InitExtract /\ [][NextExtract]_vars

\* The forwarding invocation: SES events, stored raw messages, model answers.
FwdEvents ==
    {[Records |-> <<>>]}
    \cup {[Records |-> <<[ses |-> [mail |-> [messageId |-> "m1"],
                                  receipt |-> [recipients |-> r]]]>>] :
            r \in {<<>>, <<"me@example.com">>}}

FwdHeaders ==
    {EmptyDict,
     [From |-> "Ann <ann@x.com>", Subject |-> "Hello", Date |-> "Mon, 1 Jan 2024"]}

FwdContents ==
    {[multipart |-> FALSE, content_type |-> "text/plain", disposition |-> "",
      payload |-> <<"a", "<", "b", "&", "\n", "c">>],
     [multipart |-> FALSE, content_type |-> "text/html", disposition |-> "",
      payload |-> <<"<p>h</p>">>],
     [multipart |-> FALSE, content_type |-> "application/pdf", disposition |-> "attachment",
      payload |-> <<"%PDF">>],
     [multipart |-> TRUE, content_type |-> "multipart/mixed", disposition |-> "",
      parts |-> <<[content_type |-> "text/plain", disposition |-> "", payload |-> <<"a">>],
                  [content_type |-> "text/html", disposition |-> "", payload |-> <<"<p>h</p>">>],
                  [content_type |-> "application/pdf", disposition |-> "attachment",
                   payload |-> <<"%PDF">>]>>]}

FwdMessages == {c @@ [headers |-> h] : c \in FwdContents, h \in FwdHeaders}

S3Objects ==
    {[error |-> "NoSuchKey"]}
    \cup {[Body |-> [bytes |-> "raw", parsed |-> m]] : m \in FwdMessages}

RouteToMembers ==
    {{}, {<<"route_to", JNull>>}, {<<"route_to", JArr(<<>>)>>},
     {<<"route_to", JArr(<<JStr("a@x.com")>>)>>},
     {<<"route_to", JArr(<<JStr("a@x.com"), JStr("b@x.com")>>)>>},
     {<<"route_to", JNum(5)>>}, {<<"route_to", JStr("ab")>>}}

TagsMembers ==
    {{}, {<<"tags", JNull>>}, {<<"tags", JArr(<<>>)>>}, {<<"tags", JArr(<<JStr("sales")>>)>>},
     {<<"tags", JArr(<<JStr("sales"), JStr("vip")>>)>>}}

Decisions == {Dict(r \cup t \cup {<<"confidence", JNum(1)>>}) : r \in RouteToMembers, t \in TagsMembers}

\* scenario 2 of the specification: two recipients, one tag
SalesDecisions ==
    {[route_to |-> JArr(<<JStr("a@x.com"), JStr("b@x.com")>>), tags |-> JArr(<<JStr("sales")>>)]}

Prose == [txt |-> "Here is my answer."]

AiTexts ==
    {<<Prose>>, <<Open, Prose>>, <<Prose, Close>>, <<Close, Prose, Open>>, <<Open, Close>>,
     <<Open, Prose, Close>>}
    \cup {<<Open, [members |-> d], Close>> : d \in Decisions}
    \cup {<<Prose, Open, [members |-> d], Close, Prose>> : d \in SalesDecisions}
    \cup {<<Open, [members |-> d], Close, Prose, Open, [members |-> d], Close>> :
            d \in SalesDecisions}

Inferences ==
    {[error |-> "ThrottlingException"], [error |-> "ServiceQuotaExceededException"],
     [error |-> "AccessDeniedException"], [exc |-> "ReadTimeoutError"],
     [body |-> [raw |-> "<html>502</html>"]],
     [body |-> [json |-> JObj(EmptyDict)]],
     [body |-> [json |-> JObj([content |-> JArr(<<>>)])]],
     [body |-> [json |-> JObj([content |-> JArr(<<JObj(EmptyDict)>>)])]],
     [body |-> [json |-> JObj([content |-> JArr(<<JObj([text |-> JNull])>>)])]]}
    \cup {[body |-> [json |-> JObj([content |-> JArr(<<JObj([text |-> [toks |-> t]])>>)])]] :
            t \in AiTexts}

\* the CONFIG records of the forwarding runs: rules, empty rules, disabled rules
FwdConfigItems ==
    {[prompt |-> [S |-> "Route sales mail to a@x.com"]],
     [prompt |-> [S |-> ""]],
     [prompt |-> [S |-> "Route sales mail to a@x.com"], enabled |-> [BOOL |-> FALSE]]}

\* one invocation of lambda.handler with AI_ROUTING_ENABLED as given
Forward(ev, s3_object, ai_routing_enabled, store_failed, inference, send_fail) ==
    LET o == ForwardHandler(ev, s3_object, ai_routing_enabled, routingTable, table,
                            store_failed, inference, send_fail)
    IN  /\ fwd = NotYet
        /\ fwd' = [event |-> ev, ai_routing_enabled |-> ai_routing_enabled,
                   result |-> o.result, calls |-> o.calls, raw_bytes |-> o.raw_bytes,
                   decision |-> o.decision, resolved |-> o.resolved]
        /\ inbound' = o.original
        /\ extracted' = o.content
        /\ UNCHANGED <<table, now, event, resp, stages, ops, overwritten, archiveFailed,
                       routingTable, readerOut, writers>>

\* The forwarding path.
InitForward == InitWith(TableWith({}, FwdConfigItems), {"", "ai-email-routing"})
ForwardAny ==
    \E ev \in FwdEvents, s3_object \in S3Objects, ai_routing_enabled \in BOOLEAN,
       store_failed \in BOOLEAN, inference \in Inferences, send_fail \in 0..MaxSends :
        Forward(ev, s3_object, ai_routing_enabled, store_failed, inference, send_fail)
NextForward == ForwardAny
SpecForward == InitForward /\ [][NextForward]_vars

\* Everything together.
Init == InitWith(TableWith(UsableKeyItems, {LegacyConfigItem}), {"ai-email-routing"})
Next ==
    \/ \E ev \in ProtocolEvents \cup ConfigEvents, flt \in ProtocolFaults \cup ConfigFaults : Request(ev, flt)
    \/ Deliver
    \/ Tick
    \/ ReaderCall
Spec == Init /\ [][Next]_vars

(***************************************************************************)
(* Properties.  Shared vocabulary first.                                   *)
(***************************************************************************)
\* an invocation of the protocol handler has run and its outcome is at hand
Handled == event # NotYet

IsResponse == {"statusCode", "headers", "body"} \subseteq DOMAIN resp

Status(code) == IsResponse /\ resp.statusCode = code

\* a JSON-RPC error response with this status and error code
IsRpcError(status, code) ==
    /\ Status(status)
    /\ "json" \in DOMAIN resp.body
    /\ "error" \in DOMAIN resp.body.json
    /\ "code" \in DOMAIN resp.body.json.error
    /\ resp.body.json.error.code = code

\* authentication let the request through to body parsing
Accepted == \E i \in 1..Len(stages) : stages[i] = "parse"

\* the API_KEY record the request's credential hashes to
KeyRecordKey == ApiKeyKey(Sha256(ApiKeyOf(event)))
HasKeyRecord == KeyRecordKey \in DOMAIN table
KeyRecord == table[KeyRecordKey]

RecordActive ==
    /\ "is_active" \in DOMAIN KeyRecord
    /\ "BOOL" \in DOMAIN KeyRecord["is_active"]
    /\ KeyRecord["is_active"]["BOOL"]

\* expires_at is a timestamp that is not in the past
RecordExpiresLater ==
    /\ "expires_at" \in DOMAIN KeyRecord
    /\ "S" \in DOMAIN KeyRecord["expires_at"]
    /\ \E t \in Times : IsoFormat(t) = KeyRecord["expires_at"]["S"] /\ t >= now

KeyUsable ==
    HasKeyRecord /\ RecordActive /\ ("expires_at" \notin DOMAIN KeyRecord \/ RecordExpiresLater)

\* the request's body, when it is JSON text holding an object
BodyIsObject == "json" \in DOMAIN BodyOf(event) /\ "obj" \in DOMAIN BodyOf(event).json
Envelope == BodyOf(event).json.obj
WellFormed == BodyIsObject /\ Get(Envelope, "jsonrpc", JStr("")) = JStr("2.0")
Method == Get(Envelope, "method", JStr(""))
RequestId == Get(Envelope, "id", JNull)
Permissions == Attr(KeyRecord, "permissions", "SS", {})
Handshake == {JStr("initialize"), JStr("notifications/initialized")}

MethodAllowed ==
    \/ Method \in Handshake
    \/ Permissions = {}
    \/ "all" \in Permissions
    \/ ("str" \in DOMAIN Method /\ Method.str \in Permissions)

LastStage == stages[Len(stages)]

(***************************************************************************)
(* C1.  Authentication accepts a credential if and only if the store holds *)
(* an API_KEY record under its SHA-256 hash whose is_active is true and    *)
(* whose expires_at is absent or not yet past; in every other case the     *)
(* handler answers 401 and performs no operation.  Stated for the          *)
(* invocations whose key lookup did not fail, and reading "in the future"  *)
(* as "not in the past" (the code tests now > expires_at).                 *)
(***************************************************************************)
C1_AcceptsExactlyUsableKeys ==
    (Handled /\ ApiKeyOf(event) # "" /\ ~Did(ops, "get_item", "API_KEY", FALSE)) =>
        /\ Accepted <=> KeyUsable
        /\ ~Accepted => (Status(401) /\ ops = <<Op("get_item", "API_KEY", FALSE)>>)

(***************************************************************************)
(* C2.  The handler applies its checks in the order credential ->          *)
(* authenticate -> parse -> version -> authorize -> dispatch and answers   *)
(* with the response of the first stage that fails: no credential gives    *)
(* 401 "Missing API key" with no body parsing and no store access, a       *)
(* request that is not authenticated never gets 400/403/404, and a body    *)
(* that is not JSON from an authenticated caller gets 400 with no          *)
(* permission check.                                                       *)
(***************************************************************************)
StageOrder == <<"credential", "authenticate", "parse", "version", "authorize", "dispatch">>

C2_ChecksInOrder ==
    Handled =>
        /\ Len(stages) >= 1 /\ stages = SubSeq(StageOrder, 1, Len(stages))
        /\ ApiKeyOf(event) = "" =>
               /\ resp = AuthError("Missing API key")
               /\ stages = <<"credential">>
               /\ ops = <<>>
        /\ ~Accepted => ~(Status(400) \/ Status(403) \/ Status(404))
        /\ (Accepted /\ "raw" \in DOMAIN BodyOf(event)) =>
               (Status(400) /\ LastStage = "parse")
        /\ Status(401) => LastStage \in {"credential", "authenticate"}
        /\ Status(400) => LastStage \in {"parse", "version"}
        /\ Status(403) => LastStage = "authorize"
        /\ (Status(404) \/ Status(200) \/ Status(204)) => LastStage = "dispatch"

\* a request without credential and with a body that is not JSON was answered
C2_Witness ==
    /\ Handled
    /\ "headers" \notin DOMAIN event
    /\ "raw" \in DOMAIN BodyOf(event)
    /\ Status(401)

(***************************************************************************)
(* C3.  For an authenticated, well-formed request whose method is neither  *)
(* initialize nor notifications/initialized, the answer is 403 with code   *)
(* -32603 exactly when the key's permission set is non-empty and holds     *)
(* neither the method nor "all"; the two handshake methods never get 403.  *)
(***************************************************************************)
C3_PermissionCheck ==
    (Handled /\ Accepted /\ WellFormed) =>
        /\ Method \notin Handshake =>
               (IsRpcError(403, -32603) <=>
                   (/\ Permissions # {}
                    /\ ~("str" \in DOMAIN Method /\ Method.str \in Permissions)
                    /\ "all" \notin Permissions))
        /\ Method \notin Handshake => (Status(403) => IsRpcError(403, -32603))
        /\ Method \in Handshake => ~Status(403)

\* a key limited to tools/list asked for tools/call and was refused
C3_Witness ==
    /\ Handled /\ Accepted /\ WellFormed
    /\ Method = JStr("tools/call")
    /\ Permissions = {"tools/list"}
    /\ IsRpcError(403, -32603)

(***************************************************************************)
(* C4.  For every request and every state of the store the handler returns *)
(* a {statusCode, headers, body} response; it never ends with an           *)
(* exception.                                                              *)
(***************************************************************************)
C4_AlwaysResponds == Handled => IsResponse

(***************************************************************************)
(* C5.  For an authenticated request: a body that is not JSON gives 400    *)
(* with code -32700 and id null; a version field other than "2.0" gives    *)
(* 400 with code -32600; an unknown method gives 404 with code -32601;     *)
(* tools/call with an unknown tool gives 404 with code -32601; every other *)
(* response that is not 401, 403 or 204 is a 200 carrying the request id   *)
(* and a result.                                                           *)
(***************************************************************************)
\* the version field of a JSON body ("" when there is none)
VersionField ==
    IF BodyIsObject THEN Get(Envelope, "jsonrpc", JStr("")) ELSE JStr("")

KnownMethods ==
    {JStr("initialize"), JStr("notifications/initialized"), JStr("tools/list"),
     JStr("tools/call")}

Params == Get(Envelope, "params", JObj(EmptyDict))

ToolName == Get(Params.obj, "name", JStr(""))

C5_FormatErrors ==
    (Handled /\ Accepted) =>
        /\ "raw" \in DOMAIN BodyOf(event) =>
               (IsRpcError(400, -32700) /\ resp.body.json.id = JNull)
        /\ ("json" \in DOMAIN BodyOf(event) /\ VersionField # JStr("2.0")) =>
               IsRpcError(400, -32600)
        /\ (WellFormed /\ MethodAllowed /\ Method \notin KnownMethods) =>
               IsRpcError(404, -32601)
        /\ (WellFormed /\ MethodAllowed /\ Method = JStr("tools/call")
              /\ "obj" \in DOMAIN Params
              /\ ToolName \notin {JStr(ToolNames[i]) : i \in 1..Len(ToolNames)}) =>
               IsRpcError(404, -32601)
        /\ (IsResponse /\ resp.statusCode \notin {400, 401, 403, 404, 204}) =>
               /\ Status(200)
               /\ resp.body.json.id = RequestId
               /\ "result" \in DOMAIN resp.body.json

(***************************************************************************)
(* C6.  After any sequence of writes in which no archive store call fails, *)
(* every value that was the current rules and was overwritten is the rules *)
(* of some history entry.  Stated for the non-empty values (an empty rules *)
(* text is never archived).                                                *)
(***************************************************************************)
HistoryRules == {Attr(table[k], "routing_rules", "S", "") : k \in HistoryKeys(table)}

C6_OverwrittenInHistory ==
    ~archiveFailed => (overwritten \ {""}) \subseteq HistoryRules

(***************************************************************************)
(* C7.  As claimed: every write whose put of the current record succeeds   *)
(* leaves exactly one more entry in the history list.                      *)
(***************************************************************************)
HistoryCount(tbl) == Cardinality(HistoryKeys(tbl))

\* this step is an invocation that put the CONFIG record
WriteStep == event = NotYet /\ Wrote(ops')

C7_ExactlyOneNewEntry ==
    [][WriteStep => HistoryCount(table') = HistoryCount(table) + 1]_vars

(***************************************************************************)
(* C7, amended.  A write whose put of the current record succeeds leaves   *)
(* exactly one more history entry when the read of the current record      *)
(* succeeded and gave a non-empty rules text, the archive put succeeded    *)
(* and no history entry carried the write's timestamp; otherwise it leaves *)
(* the number of entries unchanged.                                        *)
(***************************************************************************)
ArchivesNewEntry ==
    /\ Did(ops', "get_item", "CONFIG", TRUE)
    /\ CurrentRules(table) # {} /\ CurrentRules(table) # {""}
    /\ ~Did(ops', "put_item", "HISTORY", FALSE)
    /\ HistoryKey(IsoFormat(now)) \notin DOMAIN table

C7_OneNewEntryWhenArchived ==
    [][WriteStep =>
          HistoryCount(table') = HistoryCount(table) + (IF ArchivesNewEntry THEN 1 ELSE 0)]_vars

\* a write archived the previous rules and put the new ones
C7_Witness == Handled /\ Wrote(ops) /\ Did(ops, "put_item", "HISTORY", TRUE)

(***************************************************************************)
(* C8.  When the archive put fails with a store error the put of the new   *)
(* current record is still attempted, and if that put succeeds the         *)
(* operation reports success and the current rules are the written text.   *)
(***************************************************************************)
\* the dict the tool returned, inside the 200 response
ToolOutput == resp.body.json.result.content[1].text.json

\* the prompt argument of the tools/call request
WrittenPrompt ==
    Get(Get(Params.obj, "arguments", JObj(EmptyDict)).obj, "prompt", JStr("")).str

C8_ArchiveFailureDoesNotBlock ==
    (Handled /\ Did(ops, "put_item", "HISTORY", FALSE)) =>
        /\ WriteCall(ops)
        /\ Wrote(ops) =>
               /\ Status(200)
               /\ ToolOutput.success = JBool(TRUE)
               /\ CurrentRules(table) = {WrittenPrompt}

\* the archive put failed and the write went through
C8_Witness == Handled /\ Did(ops, "put_item", "HISTORY", FALSE) /\ Wrote(ops)

(***************************************************************************)
(* C9.  A failing refresh of last_used_at does not change the outcome of   *)
(* authentication: a key that is present, active and unexpired is accepted *)
(* whether the refresh succeeds or fails, and the request goes on to       *)
(* parsing and dispatch.                                                   *)
(***************************************************************************)
C9_RefreshFailureIsHarmless ==
    Handled =>
        /\ Did(ops, "update_item", "API_KEY", FALSE) => (KeyUsable /\ Accepted)
        /\ (ApiKeyOf(event) # "" /\ Did(ops, "get_item", "API_KEY", TRUE) /\ KeyUsable) =>
               Accepted
        /\ (Accepted /\ WellFormed /\ MethodAllowed) => LastStage = "dispatch"

\* the refresh failed and the request was served
C9_Witness == Handled /\ Did(ops, "update_item", "API_KEY", FALSE) /\ Status(200)

(***************************************************************************)
(* C10.  The Routing Configuration Reader returns "unavailable" (None)     *)
(* when the table name is unset, no record exists, the enabled flag is     *)
(* explicitly false, the record has no rules field (the reader's field is  *)
(* `prompt`) or the store access fails; in every other case it returns the *)
(* stored rules text.                                                      *)
(***************************************************************************)
ReaderUnavailable ==
    \/ routingTable = ""
    \/ readerOut.failed
    \/ ConfigKey \notin DOMAIN table
    \/ /\ "enabled" \in DOMAIN table[ConfigKey]
       /\ table[ConfigKey]["enabled"] = [BOOL |-> FALSE]
    \/ "prompt" \notin DOMAIN table[ConfigKey]

C10_ReaderUnavailableOrRules ==
    readerOut # NotYet =>
        IF ReaderUnavailable THEN readerOut.out = JNull
        ELSE readerOut.out = JStr(table[ConfigKey]["prompt"]["S"])

\* a disabled record with rules was read and gave "unavailable"
C10_Witness ==
    /\ readerOut # NotYet
    /\ routingTable # "" /\ ~readerOut.failed
    /\ ConfigKey \in DOMAIN table
    /\ "enabled" \in DOMAIN table[ConfigKey]
    /\ table[ConfigKey]["enabled"] = [BOOL |-> FALSE]
    /\ "prompt" \in DOMAIN table[ConfigKey]
    /\ table[ConfigKey]["prompt"] = [S |-> "A"]
    /\ readerOut.out = JNull

(***************************************************************************)
(* C11.  After a successful write of a non-empty rules text R through      *)
(* update_routing_prompt, and no later write, a read of the same table by  *)
(* the forwarding path's get_routing_prompt that does not fail returns R.  *)
(***************************************************************************)
\* the non-empty rules of a CONFIG record as update_routing_prompt leaves it
WrittenRules ==
    IF /\ ConfigKey \in DOMAIN table
       /\ \E p \in Prompts \ {""}, t \in Times : table[ConfigKey] = ConfigItem(p, IsoFormat(t))
    THEN CurrentRules(table) ELSE {}

C11_ReaderReturnsWrittenRules ==
    [][(ReadConfig(FALSE) /\ routingTable # "") =>
          \A r \in WrittenRules : readerOut'.out = JStr(r)]_vars

(***************************************************************************)
(* C18.  For a multipart message with at least one text/plain and one      *)
(* text/html part, none of them marked attachment, extraction returns the  *)
(* decoded payload of the last text/plain part as text and of the last     *)
(* text/html part as html.                                                 *)
(***************************************************************************)
\* the disposition type of the part is attachment (header values are case-insensitive)
MarkedAttachment(part) == part.disposition \in {"attachment", "Attachment"}

\* the positions of the parts of the inbound message with that content type
PartsOfType(ctype) == {i \in 1..Len(inbound.parts) : inbound.parts[i].content_type = ctype}

Last(S) == CHOOSE i \in S : \A j \in S : j <= i

C18_LastPartWins ==
    (/\ extracted # NotYet /\ inbound.multipart
     /\ PartsOfType("text/plain") # {} /\ PartsOfType("text/html") # {}
     /\ \A i \in 1..Len(inbound.parts) : ~MarkedAttachment(inbound.parts[i])) =>
        /\ extracted.text = Decode(inbound.parts[Last(PartsOfType("text/plain"))].payload)
        /\ extracted.html = Decode(inbound.parts[Last(PartsOfType("text/html"))].payload)

(***************************************************************************)
(* C19.  For a message, single-part or multipart, in which every part is   *)
(* marked attachment, extraction returns empty text and empty html.        *)
(***************************************************************************)
AllMarkedAttachment ==
    IF inbound.multipart
    THEN \A i \in 1..Len(inbound.parts) : MarkedAttachment(inbound.parts[i])
    ELSE MarkedAttachment(inbound)

C19_AttachmentsContributeNothing ==
    (extracted # NotYet /\ AllMarkedAttachment) => extracted = [text |-> <<>>, html |-> <<>>]

(***************************************************************************)
(* C20.  validate_prompt_syntax reports valid = false with a non-empty     *)
(* errors list exactly when the text is empty or blank or the prompt       *)
(* argument is missing; otherwise it reports valid = true, with            *)
(* suggestions present exactly when the text is shorter than 20 characters *)
(* or contains neither the word "route" (in any case) nor "->"; the call   *)
(* makes no read and no write of the CONFIG or HISTORY records.            *)
(***************************************************************************)
\* the request is a served tools/call of validate_prompt_syntax
ValidateCall ==
    /\ Handled /\ Accepted /\ WellFormed /\ MethodAllowed
    /\ Method = JStr("tools/call")
    /\ "obj" \in DOMAIN Params
    /\ ToolName = JStr("validate_prompt_syntax")
    /\ "obj" \in DOMAIN Get(Params.obj, "arguments", JObj(EmptyDict))

C20_ValidateSyntax ==
    ValidateCall =>
        LET text == WrittenPrompt
            blank == text \in BlankTexts
            advised == Len(text) < 20 \/ (text \notin RouteTexts /\ text \notin ArrowTexts)
        IN  /\ Status(200)
            /\ ToolOutput.valid = JBool(~blank)
            /\ blank <=> ("errors" \in DOMAIN ToolOutput /\ ToolOutput.errors # <<>>)
            /\ ~blank => (advised <=> "suggestions" \in DOMAIN ToolOutput)
            /\ blank => "suggestions" \notin DOMAIN ToolOutput
            /\ \A i \in 1..Len(ops) : ops[i].pk = "API_KEY"

\* a long text without "route" and without "->" was validated and got a suggestion
C20_Witness ==
    /\ ValidateCall
    /\ WrittenPrompt = "send all mail to support@example.com"
    /\ ToolOutput.valid = JBool(TRUE)
    /\ Len(ToolOutput.suggestions) = 1

(***************************************************************************)
(* Vocabulary of the forwarding path.                                      *)
(***************************************************************************)
\* a forwarding invocation has run and got the raw message
Forwarded == fwd # NotYet /\ fwd.raw_bytes # Unset

CallsOf(name) == SelectSeq(fwd.calls, LAMBDA c : c.call = name)

\* the sends attempted, in order
Sends == CallsOf("ses.send_raw_email")

SentTo == [i \in 1..Len(Sends) |-> Sends[i].msg.headers.To]

OrigSubject == Get(inbound.headers, "Subject", "")

\* the invocation sent to the default recipient alone, with the subject as it came
DefaultForward ==
    /\ SentTo = <<FORWARD_TO>>
    /\ Sends[1].msg.headers.Subject = OrigSubject

\* the model was asked and answered with a text: the text, as tokens
Answered ==
    /\ CallsOf("bedrock.invoke_model") # <<>>
    /\ "body" \in DOMAIN CallsOf("bedrock.invoke_model")[1].out
    /\ "exc" \notin DOMAIN AiResponseText(CallsOf("bedrock.invoke_model")[1].out.body)
    /\ "toks" \in DOMAIN AiResponseText(CallsOf("bedrock.invoke_model")[1].out.body)

AnswerText == AiResponseText(CallsOf("bedrock.invoke_model")[1].out.body).toks

(***************************************************************************)
(* C12.  With AI routing enabled, when the model's answer has no "{"..."}" *)
(* span, or the span from the first "{" to the last "}" is not a JSON      *)
(* object, or the object lacks route_to, or route_to is an empty list, the *)
(* decision is discarded: there is exactly one send, to the default        *)
(* recipient, and its subject is the original subject.                     *)
(***************************************************************************)
Opens == {i \in 1..Len(AnswerText) : AnswerText[i] = Open}
Closes == {i \in 1..Len(AnswerText) : AnswerText[i] = Close}

HasSpan == \E i \in Opens, j \in Closes : i < j

\* the text from the first "{" to the last "}"
Span ==
    SubSeq(AnswerText, CHOOSE i \in Opens : \A k \in Opens : i <= k,
                       CHOOSE j \in Closes : \A k \in Closes : k <= j)

SpanIsObject ==
    \/ Span = <<Open, Close>>
    \/ Len(Span) = 3 /\ "members" \in DOMAIN Span[2]

SpanObject == IF Span = <<Open, Close>> THEN EmptyDict ELSE Span[2].members

Discarded ==
    \/ ~HasSpan
    \/ ~SpanIsObject
    \/ "route_to" \notin DOMAIN SpanObject
    \/ SpanObject["route_to"] = JArr(<<>>)

C12_BadDecisionGivesDefault ==
    (Forwarded /\ fwd.ai_routing_enabled /\ Answered /\ Discarded) =>
        DefaultForward

\* an answer with tags and an empty route_to was forwarded to the default, untagged
C12_Witness ==
    /\ Forwarded /\ fwd.ai_routing_enabled /\ Answered
    /\ HasSpan /\ SpanIsObject
    /\ "route_to" \in DOMAIN SpanObject /\ SpanObject["route_to"] = JArr(<<>>)
    /\ "tags" \in DOMAIN SpanObject /\ SpanObject["tags"] = JArr(<<JStr("sales")>>)
    /\ OrigSubject = "Hello"
    /\ DefaultForward
    /\ fwd.result = [status |-> "ok"]

(***************************************************************************)
(* C13.  With AI routing enabled, when the read of the configuration store *)
(* fails or the inference call fails (throttling, quota, another client    *)
(* error, a timeout) or its response envelope is malformed, the invocation *)
(* still sends to the default recipient alone, and returns status "ok"     *)
(* when that send succeeds.                                                *)
(***************************************************************************)
StoreReadFailed ==
    CallsOf("dynamodb.get_item") # <<>> /\ ~CallsOf("dynamodb.get_item")[1].ok

InferenceFailed ==
    /\ CallsOf("bedrock.invoke_model") # <<>>
    /\ \/ "body" \notin DOMAIN CallsOf("bedrock.invoke_model")[1].out
       \/ ~Answered

C13_EnhancementFailureStillForwards ==
    (Forwarded /\ fwd.ai_routing_enabled /\ (StoreReadFailed \/ InferenceFailed)) =>
        /\ fwd.decision = JNull
        /\ DefaultForward
        /\ Sends[1].ok => fwd.result = [status |-> "ok"]
        /\ ~Sends[1].ok => fwd.result = [exc |-> "ClientError"]

\* the inference call was throttled and the message went to the default recipient
C13_Witness ==
    /\ Forwarded /\ fwd.ai_routing_enabled
    /\ CallsOf("bedrock.invoke_model") # <<>>
    /\ CallsOf("bedrock.invoke_model")[1].out = [error |-> "ThrottlingException"]
    /\ DefaultForward
    /\ fwd.result = [status |-> "ok"]

(***************************************************************************)
(* C14.  With AI routing enabled and a decision whose route_to is a        *)
(* non-empty list (tags a list, or absent), the resolved recipients are    *)
(* route_to in order, there is one outbound message per element, and every *)
(* outbound subject is "[t1] ... [tn] " followed by the original subject   *)
(* (the original subject alone without tags).                              *)
(***************************************************************************)
ValidDecision ==
    /\ Forwarded /\ fwd.ai_routing_enabled
    /\ fwd.decision # JNull
    /\ "arr" \in DOMAIN fwd.decision.obj["route_to"]
    /\ fwd.decision.obj["route_to"].arr # <<>>
    /\ "tags" \in DOMAIN fwd.decision.obj => "arr" \in DOMAIN fwd.decision.obj["tags"]

RouteTo ==
    [i \in 1..Len(fwd.decision.obj["route_to"].arr) |-> fwd.decision.obj["route_to"].arr[i].str]

DecisionTags ==
    IF "tags" \in DOMAIN fwd.decision.obj
    THEN [i \in 1..Len(fwd.decision.obj["tags"].arr) |-> fwd.decision.obj["tags"].arr[i].str]
    ELSE <<>>

RECURSIVE TagPrefix(_)
TagPrefix(ts) == IF ts = <<>> THEN "" ELSE "[" \o Head(ts) \o "] " \o TagPrefix(Tail(ts))

C14_ValidDecisionRoutes ==
    ValidDecision =>
        /\ fwd.resolved = [items |-> RouteTo]
        /\ SentTo = RouteTo
        /\ \A i \in 1..Len(Sends) :
              Sends[i].msg.headers.Subject = TagPrefix(DecisionTags) \o OrigSubject

(***************************************************************************)
(* C15.  With AI routing disabled, an invocation that completes has sent   *)
(* exactly one message, to the default address, with the original subject  *)
(* and the raw message attached as original.eml, and has made no read of   *)
(* the configuration store and no inference call.                          *)
(***************************************************************************)
C15_DisabledForwardsToDefault ==
    (Forwarded /\ ~fwd.ai_routing_enabled /\ fwd.result = [status |-> "ok"]) =>
        /\ DefaultForward
        /\ Sends[1].msg.attachment.filename = "original.eml"
        /\ Sends[1].msg.attachment.data = fwd.raw_bytes
        /\ CallsOf("dynamodb.get_item") = <<>>
        /\ CallsOf("bedrock.invoke_model") = <<>>
        /\ fwd.calls = <<FwdCall("s3.get_object", TRUE)>> \o Sends

\* a disabled run completed although the store is configured and holds live rules
C15_Witness ==
    /\ Forwarded /\ ~fwd.ai_routing_enabled /\ fwd.result = [status |-> "ok"]
    /\ routingTable # ""
    /\ ConfigKey \in DOMAIN table
    /\ "enabled" \notin DOMAIN table[ConfigKey]
    /\ table[ConfigKey]["prompt"] # [S |-> ""]
    /\ OrigSubject = "Hello"
    /\ ~inbound.multipart /\ inbound.content_type = "text/plain"
    /\ DefaultForward

(***************************************************************************)
(* C16.  Every resolved recipient gets exactly one dispatch attempt in an  *)
(* invocation, whether or not the dispatch to another recipient failed.    *)
(***************************************************************************)
C16_EveryRecipientAttempted ==
    (Forwarded /\ fwd.resolved # Unset) => SentTo = fwd.resolved.items

(***************************************************************************)
(* C17.  Every outbound message handed to the mail API carries the raw     *)
(* bytes fetched by this invocation as the attachment original.eml, and    *)
(* its first body part is a text part made of the text banner followed by  *)
(* the extracted text, or by the no-text placeholder when extraction gave  *)
(* no text.                                                                *)
(***************************************************************************)
ActualRecipient ==
    IF fwd.event.Records[1].ses.receipt.recipients # <<>>
    THEN fwd.event.Records[1].ses.receipt.recipients[1] ELSE ""

Banner ==
    ContextText(Get(inbound.headers, "From", ""), ActualRecipient,
                Get(inbound.headers, "Date", ""))

C17_OriginalAlwaysAttached ==
    Forwarded =>
        \A i \in 1..Len(Sends) :
            /\ Sends[i].msg.attachment.filename = "original.eml"
            /\ Sends[i].msg.attachment.data = fwd.raw_bytes
            /\ Sends[i].msg.body # <<>>
            /\ Sends[i].msg.body[1].subtype = "plain"
            /\ extracted.text # <<>> =>
                  Sends[i].msg.body[1].text = Banner \o extracted.text
            /\ extracted.text = <<>> =>
                  Sends[i].msg.body[1].text = Banner \o NoTextPlaceholder

\* two recipients were sent a message whose extraction gave no text and no html
C17_Witness ==
    /\ Forwarded
    /\ SentTo = <<"a@x.com", "b@x.com">>
    /\ extracted.text = <<>> /\ extracted.html = <<>>
    /\ \A i \in 1..2 :
          /\ Sends[i].msg.body = <<[subtype |-> "plain", text |-> Banner \o NoTextPlaceholder]>>
          /\ Sends[i].msg.attachment.data = fwd.raw_bytes

(***************************************************************************)
(* C21.  Recipients are dispatched one after the other in list order, and  *)
(* the first failed dispatch ends the invocation: it is the last call, the *)
(* exception is re-raised and status "ok" is not returned.  Status "ok" is *)
(* returned only after a successful dispatch to every resolved recipient.  *)
(* When the raw message could not be fetched the exception is re-raised    *)
(* and no dispatch is attempted.                                           *)
(***************************************************************************)
Reraised == "exc" \in DOMAIN fwd.result

C21_FirstDispatchFailureIsFatal ==
    fwd # NotYet =>
        /\ fwd.resolved = Unset => Sends = <<>>
        /\ fwd.resolved # Unset =>
              /\ Len(Sends) <= Len(fwd.resolved.items)
              /\ \A i \in 1..Len(Sends) : SentTo[i] = fwd.resolved.items[i]
        /\ \A i \in 1..Len(Sends) :
              ~Sends[i].ok =>
                  /\ i = Len(Sends)
                  /\ fwd.calls[Len(fwd.calls)] = Sends[i]
                  /\ fwd.result = [exc |-> "ClientError"]
        /\ fwd.result = [status |-> "ok"] =>
              /\ fwd.resolved # Unset
              /\ SentTo = fwd.resolved.items
              /\ \A i \in 1..Len(Sends) : Sends[i].ok
        /\ fwd.result # [status |-> "ok"] => Reraised
        /\ fwd.raw_bytes = Unset => Reraised /\ Sends = <<>>

\* the second of two dispatches failed, after the first had succeeded
C21_Witness ==
    /\ Forwarded
    /\ fwd.resolved = [items |-> <<"a@x.com", "b@x.com">>]
    /\ SentTo = <<"a@x.com", "b@x.com">>
    /\ Sends[1].ok /\ ~Sends[2].ok
    /\ fwd.result = [exc |-> "ClientError"]

(***************************************************************************)
(* C23.  An outbound message has an HTML alternative exactly when          *)
(* extraction gave html or text.  With html, the part is the HTML banner   *)
(* followed by the extracted html; with text only, it is the HTML banner   *)
(* followed by the text, HTML-escaped and with its line breaks converted,  *)
(* so that "<", ">" and "&" of the text are not in the part unescaped.     *)
(***************************************************************************)
HtmlBanner ==
    ContextHtml(Get(inbound.headers, "From", ""), ActualRecipient,
                Get(inbound.headers, "Date", ""))

HtmlParts(msg) == SelectSeq(msg.body, LAMBDA part : part.subtype = "html")

EscapedText == [i \in 1..Len(extracted.text) |-> HtmlEscape(extracted.text[i])]

C23_HtmlAlternative ==
    Forwarded =>
        \A i \in 1..Len(Sends) :
            /\ Len(HtmlParts(Sends[i].msg)) <= 1
            /\ HtmlParts(Sends[i].msg) # <<>> <=>
                  (extracted.html # <<>> \/ extracted.text # <<>>)
            /\ extracted.html # <<>> =>
                  HtmlParts(Sends[i].msg)[1].text = HtmlBanner \o extracted.html
            /\ (extracted.html = <<>> /\ extracted.text # <<>>) =>
                  HtmlParts(Sends[i].msg)[1].text =
                      HtmlBanner \o <<"<div>">> \o BreakLines(EscapedText) \o <<"</div>">>

(***************************************************************************)
(* C24.  After a successful write of the rules the CONFIG record has the   *)
(* written text as its rules (the empty text when the prompt argument is   *)
(* missing or empty), enabled = true, updated_at = the timestamp of the    *)
(* write, and no other attribute: a disabled record is enabled again and   *)
(* its model_id is gone.                                                   *)
(***************************************************************************)
WriteSucceeded ==
    /\ Handled /\ WriteCall(ops)
    /\ Status(200)
    /\ "result" \in DOMAIN resp.body.json
    /\ ToolOutput.success = JBool(TRUE)

C24_WriteReplacesRecord ==
    WriteSucceeded =>
        /\ Wrote(ops)
        /\ ConfigKey \in DOMAIN table
        /\ DOMAIN table[ConfigKey] = {"routing_rules", "enabled", "updated_at"}
        /\ table[ConfigKey]["routing_rules"] = [S |-> WrittenPrompt]
        /\ table[ConfigKey]["enabled"] = [BOOL |-> TRUE]
        /\ table[ConfigKey]["updated_at"] = [S |-> IsoFormat(now)]
        /\ ToolOutput.updated_at = JStr(IsoFormat(now))

\* a write without a prompt argument replaced the disabled record that held a model_id
C24_Witness ==
    /\ WriteSucceeded
    /\ "prompt" \notin DOMAIN Get(Params.obj, "arguments", JObj(EmptyDict)).obj
    /\ overwritten = {"A"}
    /\ table[ConfigKey]["routing_rules"] = [S |-> ""]
    /\ table[ConfigKey]["enabled"] = [BOOL |-> TRUE]
    /\ "model_id" \notin DOMAIN table[ConfigKey]

(***************************************************************************)
(* C25.  The CONFIG record and the HISTORY entries are changed only by a   *)
(* request that is authenticated, well-formed, authorized and calls the    *)
(* tool update_routing_prompt; every other request leaves them as they     *)
(* were.  A request answered with 401 changes no record at all, and the    *)
(* only other change a request makes is to last_used_at of the API_KEY     *)
(* record of the key it was authenticated with.                            *)
(***************************************************************************)
RequestStep == event = NotYet /\ event' # NotYet

IsConfigWrite ==
    /\ Accepted
    /\ WellFormed
    /\ MethodAllowed
    /\ Method = JStr("tools/call")
    /\ "obj" \in DOMAIN Params
    /\ ToolName = JStr("update_routing_prompt")

RulesKeys(tbl) == {k \in DOMAIN tbl : k[1] \in {"CONFIG", "HISTORY"}}

\* the record under k is the same but for the attributes in `but`
SameBut(old, new, but) ==
    /\ DOMAIN old \ but = DOMAIN new \ but
    /\ \A a \in DOMAIN old \ but : old[a] = new[a]

C25_OnlyWritesChangeRules ==
    [][RequestStep =>
         /\ ~IsConfigWrite' =>
               /\ RulesKeys(table') = RulesKeys(table)
               /\ \A k \in RulesKeys(table) : table'[k] = table[k]
         /\ Status(401)' => table' = table
         /\ DOMAIN table \ RulesKeys(table) = DOMAIN table' \ RulesKeys(table')
         /\ \A k \in DOMAIN table \ RulesKeys(table) :
               \/ table'[k] = table[k]
               \/ /\ Accepted'
                  /\ k = KeyRecordKey'
                  /\ SameBut(table[k], table'[k], {"last_used_at"})]_vars

\* a write by a key restricted to tools/list was refused with 403 and changed only
\* last_used_at of that key
C25_Witness ==
    /\ Handled /\ Status(403)
    /\ BodyIsObject
    /\ Method = JStr("tools/call")
    /\ "obj" \in DOMAIN Params
    /\ ToolName = JStr("update_routing_prompt")
    /\ "last_used_at" \in DOMAIN KeyRecord
    /\ ConfigKey \in DOMAIN table
    /\ table[ConfigKey] = LegacyConfigItem
    /\ HistoryKeys(table) = {}

(***************************************************************************)
(* C26.  The history is append-only: a history entry that exists is, after *)
(* any later request, still there with the same rules and the same         *)
(* archived_at, also when two writes obtain the same timestamp.            *)
(***************************************************************************)
C26_HistoryAppendOnly ==
    [][\A k \in HistoryKeys(table) :
          /\ k \in HistoryKeys(table')
          /\ table'[k]["routing_rules"] = table[k]["routing_rules"]
          /\ table'[k]["archived_at"] = table[k]["archived_at"]]_vars

(***************************************************************************)
(* C22.  A write is three separate store operations.  When two concurrent  *)
(* writes have both read the same current rules and both have finished,    *)
(* each has archived that commonly read value, and a value that was the    *)
(* current rules and was overwritten (the rules put by the writer whose    *)
(* put came first) is in no history entry.                                 *)
(***************************************************************************)
BothDone == \A w \in Writers : writers[w].pc = "done"

SameRead ==
    /\ \A w \in Writers : writers[w].current = writers["w1"].current
    /\ ShouldArchive(writers["w1"].current)

CommonRules == writers["w1"].current["routing_rules"].str

C22_RaceLosesVersion ==
    (BothDone /\ SameRead) =>
        /\ \A w \in Writers :
              /\ HistoryKey(writers[w].timestamp) \in DOMAIN table
              /\ table[HistoryKey(writers[w].timestamp)] =
                     HistoryItem(CommonRules, writers[w].timestamp)
        /\ \E w \in Writers :
              /\ writers[w].prompt \in overwritten
              /\ writers[w].prompt \notin HistoryRules

\* both writers read "A"; "B" was put first and replaced by "C"; the history holds
\* two copies of "A" and no "B"
C22_Witness ==
    /\ BothDone /\ SameRead
    /\ CommonRules = "A"
    /\ writers["w1"].prompt = "B" /\ writers["w2"].prompt = "C"
    /\ writers["w1"].timestamp # writers["w2"].timestamp
    /\ CurrentRules(table) = {"C"}
    /\ overwritten = {"A", "B"}
    /\ HistoryRules = {"A"}
    /\ HistoryCount(table) = 2

====
